---- MODULE Spec2Model ----
\* A model of the container image transport layer of twopence-provision
\* (src/python/_twopence/oci.py): image index selection, the registry
\* transport with its Bearer challenge/login/retry protocol, the blob cache
\* and the save() sequence shared by the three transports.
EXTENDS Integers, Sequences, FiniteSets, TLC

VARIABLES
    \* --- ImageIndex.find / ImageFormat.pickManifestFromIndex
    manifests,      \* ImageIndex.manifests: the descriptors of the index, in list order
    architecture,   \* the architecture argument of pickManifestFromIndex
    picked,         \* what the call ended with: its return value or the exception raised
    \* --- ImageFormatDockerRegistry: one instance and the request it is making
    keystore,       \* self._keystore: no keystore, or the URLs it holds credentials for
    creds,          \* self.creds: the credentials cached by the last successful login
    call,           \* the transport method the caller invoked (download, httpHead, ...)
    digest,         \* d.digest of the descriptor handed to upload()
    pc,             \* where _urlopen stands: idle, first, token, retry
    authReq,        \* auth_request: the challenge taken from AuthenticationRequired
    loginCreds,     \* the local creds of _urlopen, as returned by getCredentials
    wire,           \* what the current _urlopen call has sent, in order
    seen,           \* the replies the current _urlopen call has consumed, in order
    logins,         \* how often the current _urlopen call has called doLoginDocker
    calls,          \* the _urlopen calls the current transport method has made
    raw,            \* how the last _urlopen call ended: "none" or the exception raised
    result,         \* how the transport method ended: return value or exception
    \* --- ImageBlobCache and the blobs opened through it
    cacheOn,        \* self._cache is set (setCacheDir was called)
    cacheFiles,     \* the cache directory: the file of each digest, if any
    opens,          \* the openBlob calls made so far and how each ended
    \* --- one save(img) on one destination
    transport,      \* which ImageFormat the destination is
    image,          \* img.manifest: the config descriptor and the layer descriptors
    srcPath,        \* img.loader.blobFilesystemPath(d) names a file (a directory source)
    stored,         \* the digests of the blobs the destination holds
    lastBlobSaved,  \* self._lastBlobSaved of the archive transport
    writing,        \* self._writing of the archive transport
    step,           \* which statement of save() is next
    layer,          \* which layer the loop of saveImageLayers is at
    events,         \* the saveConfig/saveLayer calls made and how each ended
    manifestWritten, \* saveManifest has written the manifest
    saveExc,        \* how save() ended: "none" or the exception raised
    saves,          \* the save() calls made on this instance so far
    manifestFile,   \* what manifest.json (index.json) of the destination holds
    handles,        \* the file objects opened so far that no statement closes
    loaded,         \* how load() of the destination ended
    \* --- one MediaType object
    mtString,       \* the string MediaType(mt) was built from
    mediaType,      \* the object: baseMIMEType, compression, vendor
    mtHistory,      \* the object as built and after each changeVendor
    mtExc,          \* the exception changeVendor raised, "none" if none
    mtRepr,         \* what repr() of the object as built ended with
    \* --- ImageReference.parse of one reference string
    refInput,       \* the reference as written: host, path segments, tag
    dns,            \* the host names socket.gethostbyname resolves
    parsedRef,      \* what parse() ended with: registry, name, tag or the exception
    \* --- LayerMap: one layer digest that two images carry
    mapImages,      \* the two images: layer count, manifest class, loader, the layer's media type
    layerMap,       \* LayerMap._dict[digest]: generation and reference, or nothing
    mapped,         \* the images handed to addReferencedLayer, in order, with how each call ended
    reference,      \* what getReference(d) ended with
    \* --- ImageFormatDockerRegistry.load of one image
    served,         \* what the registry serves: the index, the manifest's schemaVersion, the statuses
    fetches,        \* the URLs load() has fetched, in order
    loadResult,     \* how load() ended: the exception, or the image returned
    storeArchitecture, \* self.architecture, as ImageFactory.getImageStorage set it
    \* --- one ImageFormatOCIArchive handle and its open()
    arWriting,      \* self._writing
    arHandle,       \* self._th: False, or the tar file as opened for reading or for writing
    arMembers,      \* the members of the archive, in the order added
    arLast,         \* the last of savePreamble, load and close, and how it ended
    arOpen,         \* the last open(): mode, mode of the handle before, members before, how it ended
    \* --- ImageFormatDir.copyBlob of one blob
    cpSource,       \* the source blob: its bytes, whether its loader exposes a path, how far it reads
    cpDest,         \* the file of the digest in the destination directory, NoFile when absent
    cpResult,       \* how copyBlob ended, whether a hard link was made and whether bytes were copied
    \* --- one OCIDescriptor and the methods that rewrite it
    dSelf,          \* the descriptor: mediaType, _parsedMediaType, digest, size, urls
    dBefore,        \* the descriptor as it was before the call
    dCall           \* the method called, how it ended, and the descriptor it returned

idxVars == <<manifests, architecture, picked>>
regVars == <<keystore, creds, call, digest, pc, authReq, loginCreds, logins, wire, seen,
             calls, raw, result>>
cacheVars == <<cacheOn, cacheFiles, opens>>
saveVars == <<transport, image, srcPath, stored, lastBlobSaved, writing, step, layer,
              events, manifestWritten, saveExc, saves, manifestFile, handles, loaded>>
mediaVars == <<mtString, mediaType, mtHistory, mtExc, mtRepr>>
refVars == <<refInput, dns, parsedRef>>
layerVars == <<mapImages, layerMap, mapped, reference>>
loadVars == <<served, fetches, loadResult, storeArchitecture>>
archiveVars == <<arWriting, arHandle, arMembers, arLast, arOpen>>
copyVars == <<cpSource, cpDest, cpResult>>
descVars == <<dSelf, dBefore, dCall>>
vars == <<idxVars, regVars, cacheVars, saveVars, mediaVars, refVars, layerVars, loadVars, archiveVars, copyVars, descVars>>

\* What the actions of one part of the model leave alone
notIndex == <<regVars, cacheVars, saveVars, mediaVars, refVars, layerVars, loadVars, archiveVars, copyVars, descVars>>
notRegistry == <<idxVars, cacheVars, saveVars, mediaVars, refVars, layerVars, loadVars, archiveVars, copyVars, descVars>>
notCache == <<idxVars, regVars, saveVars, mediaVars, refVars, layerVars, loadVars, archiveVars, copyVars, descVars>>
notSave == <<idxVars, regVars, cacheVars, mediaVars, refVars, layerVars, loadVars, archiveVars, copyVars, descVars>>
notMedia == <<idxVars, regVars, cacheVars, saveVars, refVars, layerVars, loadVars, archiveVars, copyVars, descVars>>
notReference == <<idxVars, regVars, cacheVars, saveVars, mediaVars, layerVars, loadVars, archiveVars, copyVars, descVars>>
notLayerMap == <<idxVars, regVars, cacheVars, saveVars, mediaVars, refVars, loadVars, archiveVars, copyVars, descVars>>
notLoad == <<idxVars, regVars, cacheVars, saveVars, mediaVars, refVars, layerVars, archiveVars, copyVars, descVars>>
notArchive == <<idxVars, regVars, cacheVars, saveVars, mediaVars, refVars, layerVars, loadVars, copyVars, descVars>>
notCopy == <<idxVars, regVars, cacheVars, saveVars, mediaVars, refVars, layerVars, loadVars, archiveVars, descVars>>
notDescriptor == <<idxVars, regVars, cacheVars, saveVars, mediaVars, refVars, layerVars, loadVars, archiveVars, copyVars>>

\* ------------------------------------------------------------------
\* Bounds
\* ------------------------------------------------------------------
MaxManifests == 3
MaxChunks == 1
MaxOpens == 2
MaxLayers == 2
MaxSaves == 2
MaxChanges == 2
MaxSegments == 2
MaxGeneration == 3
MaxMembers == 3
MaxBlobChunks == 2

\* ------------------------------------------------------------------
\* Image index: ImageIndex.find and ImageFormat.pickManifestFromIndex
\* ------------------------------------------------------------------

\* getattr(mf, 'platform', None) is None
NoPlatform == "no-platform"
Architectures == {"amd64", "arm64"}
RequestedArchitectures == Architectures \cup {"s390x"}
Platforms == Architectures \cup {NoPlatform}

\* Python's None where a descriptor is expected
NoDescriptor == [digest |-> 0, platform |-> "None"]

\* A descriptor of the index: only the fields find() reads, the digest
\* standing for the descriptor's identity (its position in the list).
Descriptor(i, p) == [digest |-> i, platform |-> p]

\* The indexes a registry can answer with: any list of descriptors, with or
\* without platform, architectures repeated or not.
Indexes ==
    UNION { { [i \in 1..n |-> Descriptor(i, ps[i])] : ps \in [1..n -> Platforms] }
            : n \in 0..MaxManifests }

\* ImageIndex.find: the wildcard found so far is carried through the loop.
RECURSIVE findFrom(_, _, _, _)
findFrom(mfs, arch, i, wildcard) ==
    IF i > Len(mfs)
    THEN [exc |-> "none", desc |-> wildcard]
    ELSE IF mfs[i].platform = NoPlatform
         THEN IF wildcard # NoDescriptor
              THEN [exc |-> "ValueError", desc |-> NoDescriptor]
              ELSE findFrom(mfs, arch, i + 1, mfs[i])
         ELSE IF mfs[i].platform = arch
              THEN [exc |-> "none", desc |-> mfs[i]]
              ELSE findFrom(mfs, arch, i + 1, wildcard)

\* A plausible slip: the wildcard is returned as soon as it is seen.
findFromEagerWildcard(mfs, arch) ==
    IF \E i \in 1..Len(mfs) : mfs[i].platform \in {NoPlatform, arch}
    THEN LET k == CHOOSE i \in 1..Len(mfs) :
                    /\ mfs[i].platform \in {NoPlatform, arch}
                    /\ \A j \in 1..(i - 1) : mfs[j].platform \notin {NoPlatform, arch}
         IN [exc |-> "none", desc |-> mfs[k]]
    ELSE [exc |-> "none", desc |-> NoDescriptor]

\* A plausible slip: the last descriptor of the architecture wins, not the first.
findLastMatch(mfs, arch) ==
    IF \E i \in 1..Len(mfs) : mfs[i].platform = arch
    THEN LET k == CHOOSE i \in 1..Len(mfs) :
                    /\ mfs[i].platform = arch
                    /\ \A j \in (i + 1)..Len(mfs) : mfs[j].platform # arch
         IN [exc |-> "none", desc |-> mfs[k]]
    ELSE findFrom(mfs, arch, 1, NoDescriptor)

find(mfs, arch) == findFrom(mfs, arch, 1, NoDescriptor)

\* ImageFormat.pickManifestFromIndex: `desc.isManifest` names the bound method
\* without calling it, so only `not desc` can make the result None.
pickManifestFromIndex(mfList, arch) ==
    LET r == find(mfList, arch)
    IN IF r.exc # "none" THEN r
       ELSE IF r.desc = NoDescriptor
            THEN [exc |-> "none", desc |-> NoDescriptor]
            ELSE r

NotPicked == [exc |-> "pending", desc |-> NoDescriptor]

InitIndex ==
    /\ manifests \in Indexes
    /\ architecture \in RequestedArchitectures
    /\ picked = NotPicked

\* One call of pickManifestFromIndex(index, architecture)
PickManifest ==
    /\ picked = NotPicked
    /\ picked' = pickManifestFromIndex(manifests, architecture)
    /\ UNCHANGED <<manifests, architecture>>
    /\ UNCHANGED notIndex

\* The caller goes on to another index
NextIndex ==
    /\ picked # NotPicked
    /\ manifests' \in Indexes
    /\ architecture' \in RequestedArchitectures
    /\ picked' = NotPicked
    /\ UNCHANGED notIndex

NextIndexes == PickManifest \/ NextIndex


\* Helpers to state the claims about the index
MatchPositions == { i \in 1..Len(manifests) : manifests[i].platform = architecture }
WildcardPositions == { i \in 1..Len(manifests) : manifests[i].platform = NoPlatform }
FirstMatch == CHOOSE i \in MatchPositions : \A j \in MatchPositions : i <= j
WildcardsBefore(k) == { i \in WildcardPositions : i < k }
PickDone == picked # NotPicked

\* C9 (as stated): the architecture-exact descriptor is returned whenever one
\* exists, wherever it stands relative to a wildcard; the wildcard is returned
\* only when no descriptor matches; nothing is returned when neither exists.
C9_ArchExactWhenever ==
    PickDone =>
        /\ MatchPositions # {} =>
              picked.exc = "none" /\ picked.desc.platform = architecture
        /\ (picked.exc = "none" /\ picked.desc.platform = NoPlatform) => MatchPositions = {}
        /\ (MatchPositions = {} /\ WildcardPositions = {}) =>
              picked = [exc |-> "none", desc |-> NoDescriptor]

\* C9 (amended): the first architecture-exact descriptor is returned whenever
\* one exists with fewer than two platform-less descriptors before it (a single
\* wildcard before or after it changes nothing); with two platform-less
\* descriptors before it the call fails. The wildcard is returned only when
\* no descriptor matches, and nothing is returned when neither exists.
C9_ArchExactPreferred ==
    PickDone =>
        /\ (MatchPositions # {} /\ Cardinality(WildcardsBefore(FirstMatch)) < 2) =>
              picked = [exc |-> "none", desc |-> manifests[FirstMatch]]
        /\ (MatchPositions # {} /\ Cardinality(WildcardsBefore(FirstMatch)) >= 2) =>
              picked.exc = "ValueError"
        /\ (picked.exc = "none" /\ picked.desc.platform = NoPlatform) =>
              /\ MatchPositions = {}
              /\ WildcardPositions = {picked.desc.digest}
        /\ (MatchPositions = {} /\ WildcardPositions = {}) =>
              picked = [exc |-> "none", desc |-> NoDescriptor]

\* C9 witness: a wildcard stands before the architecture-exact descriptor and
\* the architecture-exact descriptor was returned.
C9_Witness ==
    /\ PickDone
    /\ MatchPositions # {}
    /\ Cardinality(WildcardsBefore(FirstMatch)) = 1
    /\ picked = [exc |-> "none", desc |-> manifests[FirstMatch]]

\* C10 (as stated): an index in which two descriptors list the same
\* architecture makes pickManifestFromIndex fail.
DuplicateArchitecture ==
    \E i, j \in 1..Len(manifests) :
        /\ i < j
        /\ manifests[i].platform # NoPlatform
        /\ manifests[i].platform = manifests[j].platform
C11_TwoWildcardsFail ==
    (PickDone /\ Cardinality(WildcardPositions) >= 2) => picked.exc = "ValueError"

\* ------------------------------------------------------------------
\* Registry transport: ImageFormatDockerRegistry and BearerAuthHandler
\* ------------------------------------------------------------------

\* A header or parameter that is not there (dict.get returns None)
NoParam == "<absent>"

\* --- what a registry (or a token endpoint) can answer

\* The Www-Authenticate header of a 401: a challenge {type, params}, or no
\* header at all, or one parse_auth_header cannot parse.
ChallengeTypes == {"Bearer", "Basic"}
ChallengeErrors == {NoParam, "", "insufficient_scope", "invalid_token"}
Realms == {NoParam, "https://auth.docker.io/token", "docker.io", "https://auth.example/token"}
Challenges == [type : ChallengeTypes, error : ChallengeErrors, realm : Realms]
NoChallenge == [type |-> "<no header>", error |-> NoParam, realm |-> NoParam]
GarbledChallenge == [type |-> "<unparseable>", error |-> NoParam, realm |-> NoParam]

Digests == {"sha256:aa", "sha256:bb"}
Tokens == {"t1", "t2"}

\* The Location header of the reply to POST /v2/<name>/blobs/uploads/
NoLocation == [path |-> NoParam, query |-> <<>>]
Locations == { [path |-> "/v2/name/blobs/uploads/uuid", query |-> q] :
                  q \in {<<>>, <<[key |-> "_state", value |-> "s"]>>} }

PlainReply(code) ==
    [code |-> code, hdr |-> NoChallenge, location |-> NoLocation,
     dcd |-> NoParam, token |-> NoParam]

\* 2xx replies; only the headers the method's caller reads are varied.
OkReplies(method) ==
    CASE method = "POST" ->
            { [PlainReply(c) EXCEPT !.location = l] :
                  c \in {202}, l \in Locations \cup {NoLocation} }
      [] method = "PUT" ->
            { [PlainReply(c) EXCEPT !.dcd = g] :
                  c \in {201, 202}, g \in Digests \cup {NoParam} }
      [] OTHER -> { PlainReply(c) : c \in {200, 204} }

Unauthorized ==
    { [PlainReply(401) EXCEPT !.hdr = h] :
          h \in Challenges \cup {NoChallenge, GarbledChallenge} }

\* What the registry may answer to a request of the given method
Replies(method) == OkReplies(method) \cup Unauthorized \cup {PlainReply(404)}

\* What the token endpoint may answer to GET realm?service=..&scope=..
TokenReplies ==
    { [PlainReply(200) EXCEPT !.token = t] : t \in Tokens \cup {NoParam} }
        \cup Unauthorized \cup {PlainReply(404)}

\* Slips of http_error_401 a claim must notice
http_error_401_AnyType(hdr) ==
    IF hdr \in {NoChallenge, GarbledChallenge} THEN "ValueError"
    ELSE IF hdr.error \notin {NoParam, ""} /\ hdr.error # "insufficient_scope"
         THEN "HTTPError"
         ELSE "AuthenticationRequired"

\* --- BearerAuthHandler.http_error_401: how a 401 leaves urllib
\* A handler that returns None hands the 401 to urllib's default handler,
\* which raises HTTPError. `if error and ...` takes an empty error for none.
http_error_401(hdr) ==
    IF hdr = NoChallenge THEN "ValueError"
    ELSE IF hdr = GarbledChallenge THEN "ValueError"
    ELSE IF hdr.type # "Bearer" THEN "HTTPError"
    ELSE IF hdr.error \notin {NoParam, ""} /\ hdr.error # "insufficient_scope"
         THEN "HTTPError"
         ELSE "AuthenticationRequired"

\* urllib.request.urlopen(req) with the Bearer handler installed: "none" when
\* a response is returned, else the exception raised.
urllibOpen(reply) ==
    IF reply.code = 401 THEN http_error_401(reply.hdr)
    ELSE IF reply.code \in 200..299 THEN "none"
    ELSE "HTTPError"

\* --- credentials

NoKeystore == {"<no keystore>"}
KeystoreURLs == {"https://index.docker.io/v1/", "https://auth.docker.io/token"}
Keystores == {NoKeystore} \cup SUBSET KeystoreURLs

\* The Authorization header of a message: "<scheme> <value>"
NoHeader == [scheme |-> "<none>", value |-> NoParam]
BearerHeader(type, token) == [scheme |-> type, value |-> token]
BasicHeader(user) == [scheme |-> "Basic", value |-> user]

\* KeystoreBase.Credentials; NoCreds stands for None
NoCreds == [user |-> NoParam, authorization_header |-> NoHeader, url |-> NoParam]
NoInfo == [auth_url |-> NoParam, cred_url |-> NoParam]

\* RegistryInfo.forHost
forHost(realm) ==
    IF realm = "docker.io"
    THEN [auth_url |-> "https://hub.docker.com/v2/users/login",
          cred_url |-> "https://index.docker.io/v1/"]
    ELSE IF realm = "https://auth.docker.io/token"
    THEN [auth_url |-> "https://auth.docker.io/token",
          cred_url |-> "https://index.docker.io/v1/"]
    ELSE NoInfo

\* Keystore.get: the stored user and password of a URL, or None
keystoreGet(ks, url) ==
    IF url \in ks
    THEN [user |-> "alice", authorization_header |-> NoHeader, url |-> NoParam]
    ELSE NoCreds

\* A plausible slip: only the auth_url of the registry is looked up
getCredentialsAuthUrlOnly(ks, realm) ==
    IF realm = NoParam THEN NoCreds
    ELSE LET registry == forHost(realm) IN
         IF registry = NoInfo THEN NoCreds
         ELSE IF ks = NoKeystore THEN NoCreds
         ELSE LET c2 == keystoreGet(ks, registry.auth_url)
              IN IF c2 = NoCreds THEN NoCreds
                 ELSE [c2 EXCEPT !.url = registry.auth_url]

\* ImageFormat.getCredentials(realm); NoCreds stands for None
getCredentials(ks, realm) ==
    IF realm = NoParam THEN NoCreds
    ELSE LET registry == forHost(realm) IN
         IF registry = NoInfo THEN NoCreds
         ELSE IF ks = NoKeystore THEN NoCreds
         ELSE LET c1 == keystoreGet(ks, registry.cred_url)
                  c2 == IF c1 = NoCreds THEN keystoreGet(ks, registry.auth_url) ELSE c1
              IN IF c2 = NoCreds THEN NoCreds
                 ELSE [c2 EXCEPT !.url = registry.auth_url]

\* str.startswith("https://auth.docker.io") on the realms of the model
StartsWithAuthDockerIo(realm) == realm = "https://auth.docker.io/token"

\* urllib.request.Request(url) raises ValueError for a URL without a scheme
HasScheme(realm) == realm \in {"https://auth.docker.io/token", "https://auth.example/token"}

\* ImageFormatDockerRegistry.__init__ sets key, creds and url and no `path`
\* (nor does ImageFormat.__init__), so `raise X(self.path, ...)` ends in the
\* AttributeError of evaluating its first argument, whatever X is.
RaiseWithPath(intended) == "AttributeError"

\* A slip a claim must notice: the cached header is never attached
AuthorizationDropped(c) == NoHeader

\* _urlopen, lines 1160-1162 and 1191-1193: the header added to the request
AuthorizationOf(c) ==
    IF c # NoCreds THEN c.authorization_header ELSE NoHeader

Message(kind, method, hdr) == [kind |-> kind, method |-> method, authorization |-> hdr]

\* --- how each transport method ends once its _urlopen call has ended
\* exc is the exception _urlopen raised ("none": it returned reply).
\* urlopen() (1139-1151) re-raises what it catches and is not modelled apart.

Raised(exc) == [exc |-> exc, ret |-> "None", status |-> 0]
Returned(ret, status) == [exc |-> "none", ret |-> ret, status |-> status]
Pending == [exc |-> "pending", ret |-> "None", status |-> 0]
Continue == [exc |-> "continue", ret |-> "None", status |-> 0]

\* download(), lines 1033-1050, called without a cache handle
downloadEnds(exc, reply) ==
    IF exc = "HTTPError" THEN Raised(RaiseWithPath("ImageLoadError"))
    ELSE IF exc # "none" THEN Raised(exc)
    ELSE IF reply.code # 200 THEN Raised(RaiseWithPath("ImageLoadError"))
    ELSE Returned("response", reply.code)

\* httpHead(), lines 1128-1137
httpHeadEnds(exc, reply) ==
    IF exc = "HTTPError" THEN Returned("False", 0)
    ELSE IF exc # "none" THEN Raised(exc)
    ELSE IF reply.code # 200 THEN Returned("False", reply.code)
    ELSE Returned("True", reply.code)

\* httpPost(), lines 1106-1116: HTTPError is left to the caller
httpPostEnds(exc, reply) ==
    IF exc # "none" THEN Raised(exc)
    ELSE IF reply.code \div 100 # 2 THEN Raised(RaiseWithPath("ImageSaveError"))
    ELSE Returned("response", reply.code)

\* uploadManifest(), lines 931-940
uploadManifestEnds(exc, reply) ==
    LET r == httpPostEnds(exc, reply)
    IN IF r.exc # "none" THEN r
       ELSE IF reply.code # 201 THEN Raised("AssertionError")
       ELSE Returned("None", reply.code)

\* upload(), lines 1060-1073: after the POST
uploadAfterPost(exc, reply) ==
    LET r == httpPostEnds(exc, reply)
    IN IF r.exc = "HTTPError" THEN Raised(RaiseWithPath("ImageSaveError"))
       ELSE IF r.exc # "none" THEN r
       ELSE IF reply.location = NoLocation THEN Raised(RaiseWithPath("ImageSaveError"))
       ELSE Continue

\* upload(), lines 1083-1094: after the PUT, whose HTTPError nothing catches
uploadAfterPut(exc, reply, d) ==
    LET r == httpPostEnds(exc, reply)
    IN IF r.exc # "none" THEN r
       ELSE IF reply.code # 201 THEN Raised(RaiseWithPath("ImageSaveError"))
       ELSE IF reply.dcd # d THEN Raised(RaiseWithPath("ImageSaveError"))
       ELSE Returned("None", reply.code)

\* upload(), lines 1075-1081: the PUT goes to the Location, digest=<digest>
\* added to the query it has, or being the query when it has none
DigestParam(d) == [key |-> "digest", value |-> d]
PutURL(location, d) ==
    IF location.query # <<>>
    THEN [location EXCEPT !.query = location.query \o <<DigestParam(d)>>]
    ELSE [location EXCEPT !.query = <<DigestParam(d)>>]

CallEnds(c, nth, exc, reply, d) ==
    CASE c = "download" -> downloadEnds(exc, reply)
      [] c = "httpHead" -> httpHeadEnds(exc, reply)
      [] c = "uploadManifest" -> uploadManifestEnds(exc, reply)
      [] c = "upload" /\ nth = 1 -> uploadAfterPost(exc, reply)
      [] c = "upload" /\ nth # 1 -> uploadAfterPut(exc, reply, d)

\* A slip a claim must notice: the retry is wrapped in the same try
CaughtAtEveryStage(stage, exc) == exc = "AuthenticationRequired"

\* _urlopen, lines 1172-1175 and 1195: the first urlopen stands in a try
\* that catches AuthenticationRequired, the retried one in none.
Caught(stage, exc) == stage = "first" /\ exc = "AuthenticationRequired"

\* --- the state machine

NoURL == [path |-> NoParam, query |-> <<>>]
CurrentMethod == calls[Len(calls)].method

InitRegistry ==
    /\ keystore \in Keystores
    /\ creds = NoCreds
    /\ call = "none"
    /\ digest = "sha256:aa"
    /\ pc = "idle"
    /\ authReq = NoChallenge
    /\ loginCreds = NoCreds
    /\ logins = 0
    /\ wire = <<>>
    /\ seen = <<>>
    /\ calls = <<>>
    /\ raw = "pending"
    /\ result = Pending

\* _urlopen, lines 1157-1173: the cached Authorization header is added and
\* the request goes out
BeginUrlopen(method, url, before) ==
    /\ pc' = "first"
    /\ calls' = Append(before, [method |-> method, url |-> url])
    /\ wire' = <<Message("request", method, AuthorizationOf(creds))>>
    /\ seen' = <<>>
    /\ logins' = 0
    /\ authReq' = NoChallenge
    /\ loginCreds' = NoCreds
    /\ raw' = "pending"
    /\ result' = Pending

\* download(partialURL): GET of a manifest or of a blob
Download ==
    /\ pc = "idle"
    /\ call' = "download"
    /\ BeginUrlopen("GET", NoURL, <<>>)
    /\ UNCHANGED <<keystore, creds, digest>>
    /\ UNCHANGED notRegistry

\* httpHead(partialURL): HEAD of a blob (blobExists)
HttpHead ==
    /\ pc = "idle"
    /\ call' = "httpHead"
    /\ BeginUrlopen("HEAD", NoURL, <<>>)
    /\ UNCHANGED <<keystore, creds, digest>>
    /\ UNCHANGED notRegistry

\* upload(partialURL, src, d): POST for an upload location, then PUT
Upload ==
    /\ pc = "idle"
    /\ call' = "upload"
    /\ digest' \in Digests
    /\ BeginUrlopen("POST", NoURL, <<>>)
    /\ UNCHANGED <<keystore, creds>>
    /\ UNCHANGED notRegistry

\* uploadManifest(partialURL, src): PUT of the manifest
UploadManifest ==
    /\ pc = "idle"
    /\ call' = "uploadManifest"
    /\ BeginUrlopen("PUT", NoURL, <<>>)
    /\ UNCHANGED <<keystore, creds, digest>>
    /\ UNCHANGED notRegistry

\* The _urlopen call ends (exc, or reply returned) after n calls of
\* doLoginDocker, and control is back in the transport method, which ends
\* too or, in upload(), goes on to the PUT.
Finish(exc, reply, n) ==
    LET end == CallEnds(call, Len(calls), exc, reply, digest)
    IN IF end = Continue
       THEN BeginUrlopen("PUT", PutURL(reply.location, digest), calls)
       ELSE /\ pc' = "idle"
            /\ result' = end
            /\ raw' = exc
            /\ seen' = Append(seen, reply)
            /\ logins' = n
            /\ UNCHANGED <<wire, calls, authReq, loginCreds>>

\* _urlopen, lines 1177-1186, and doLoginDocker up to its urlopen (942-959):
\* credentials are looked up for the realm of the challenge and the token
\* request goes out, with a Basic header when credentials were found
BeginLogin(reply) ==
    LET auth_request == reply.hdr
        c == getCredentials(keystore, auth_request.realm)
    IN IF c # NoCreds /\ ~StartsWithAuthDockerIo(auth_request.realm)
       THEN Finish(RaiseWithPath("ImageSaveError"), reply, logins)
       ELSE IF auth_request.realm = NoParam
       THEN Finish("KeyError", reply, logins + 1)
       ELSE IF ~HasScheme(auth_request.realm)
       THEN Finish("ValueError", reply, logins + 1)
       ELSE /\ pc' = "token"
            /\ logins' = logins + 1
            /\ authReq' = auth_request
            /\ loginCreds' = c
            /\ wire' = Append(wire, Message("token", "GET",
                          IF c # NoCreds THEN BasicHeader(c.user) ELSE NoHeader))
            /\ seen' = Append(seen, reply)
            /\ UNCHANGED <<calls, raw, result>>

\* A reply to a request of _urlopen, at stage "first" or "retry"
HandleReply(stage, reply) ==
    LET exc == urllibOpen(reply)
    IN IF Caught(stage, exc)
       THEN BeginLogin(reply)
       ELSE Finish(exc, reply, logins)

\* The registry answers the request as first issued
FirstReply ==
    /\ pc = "first"
    /\ \E reply \in Replies(CurrentMethod) : HandleReply("first", reply)
    /\ UNCHANGED <<keystore, creds, call, digest>>
    /\ UNCHANGED notRegistry

\* doLoginDocker, lines 959-979, and the retry of _urlopen (1188-1195): the
\* token endpoint answers; a token is cached as self.creds and the request
\* is sent again with the new Authorization header
TokenReply ==
    /\ pc = "token"
    /\ \E reply \in TokenReplies :
          LET exc == urllibOpen(reply)
          IN IF exc # "none"
             THEN /\ Finish(exc, reply, logins)
                  /\ creds' = creds
             ELSE IF reply.token = NoParam
             THEN /\ Finish(IF loginCreds # NoCreds THEN "LoginError"
                                                     ELSE "AttributeError",
                            reply, logins)
                  /\ creds' = creds
             ELSE /\ creds' = [user |-> loginCreds.user,
                               authorization_header |->
                                   BearerHeader(authReq.type, reply.token),
                               url |-> loginCreds.url]
                  /\ pc' = "retry"
                  /\ wire' = Append(wire, Message("request", CurrentMethod,
                                                  AuthorizationOf(creds')))
                  /\ seen' = Append(seen, reply)
                  /\ UNCHANGED <<calls, logins, authReq, loginCreds, raw, result>>
    /\ UNCHANGED <<keystore, call, digest>>
    /\ UNCHANGED notRegistry

\* The registry answers the retried request
RetryReply ==
    /\ pc = "retry"
    /\ \E reply \in Replies(CurrentMethod) : HandleReply("retry", reply)
    /\ UNCHANGED <<keystore, creds, call, digest>>
    /\ UNCHANGED notRegistry

NextRegistry ==
    \/ Download \/ HttpHead \/ Upload \/ UploadManifest
    \/ FirstReply \/ TokenReply \/ RetryReply


\* --- claims about the registry transport

RequestsSent == { i \in 1..Len(wire) : wire[i].kind = "request" }
TokenRequestsSent == { i \in 1..Len(wire) : wire[i].kind = "token" }
LastRequest == wire[CHOOSE i \in RequestsSent : \A j \in RequestsSent : j <= i]
Failed(exc) == exc \notin {"none", "pending"}

\* The retried request of the current _urlopen call has been answered
RetryAnswered == pc = "idle" /\ Len(wire) = 3 /\ Len(seen) = 3

\* C1: one _urlopen call performs at most one token exchange and at most one
\* retried request; when the retried request is answered with 401 again the
\* call ends in failure, with no further login and no further request.
C1_AtMostOneRetry ==
    /\ logins <= 1
    /\ Cardinality(TokenRequestsSent) <= 1
    /\ Cardinality(RequestsSent) <= 2
    /\ Len(seen) <= 3
    /\ (Len(seen) = 3 /\ seen[3].code = 401) =>
          /\ pc = "idle"
          /\ Failed(raw)
          /\ logins = 1
          /\ Len(wire) = 3

\* C1 witness: the retried request was answered with a Bearer 401 again
C1_Witness ==
    /\ RetryAnswered
    /\ seen[3].code = 401
    /\ seen[3].hdr.type = "Bearer"
    /\ seen[3].hdr.error = NoParam
    /\ logins = 1

\* C2: a request made through download, httpPost or httpHead never ends with
\* the internal AuthenticationRequired signal reaching the caller.
C2_SignalNeverSurfaces ==
    result.exc # "AuthenticationRequired"

\* The first reply of the current _urlopen call is a 401 with a challenge
ChallengeSeen ==
    /\ Len(seen) >= 1
    /\ seen[1].code = 401
    /\ seen[1].hdr \in Challenges
    /\ wire[1].kind = "request"

\* A stored credential exists for a realm that is not the Docker token
\* service: _urlopen then does not know how to authenticate
LoginRefused(hdr) ==
    /\ hdr.realm = "docker.io"
    /\ keystore # NoKeystore
    /\ "https://index.docker.io/v1/" \in keystore

\* C3 (as stated): on a 401, a login followed by a retry is attempted if and
\* only if the challenge is of type Bearer with no error parameter or with
\* error=insufficient_scope; otherwise there is no token exchange, no retry,
\* and the 401 is surfaced as an HTTP error.
C3_LoginIffBearer ==
    ChallengeSeen =>
        IF seen[1].hdr.type = "Bearer"
              /\ seen[1].hdr.error \in {NoParam, "insufficient_scope"}
        THEN logins = 1
        ELSE /\ logins = 0
             /\ TokenRequestsSent = {}
             /\ Cardinality(RequestsSent) = 1
             /\ raw = "HTTPError"

\* C3 (amended): on the 401 answering a request as first issued, a login is
\* attempted if and only if the challenge is of type Bearer, its error
\* parameter is absent, empty or insufficient_scope, and _urlopen does not
\* refuse to authenticate (credentials stored for a realm other than
\* https://auth.docker.io...); a retry follows only a login that obtained a
\* token. A challenge of another type or with another error value causes no
\* token exchange and no retry, and the 401 is surfaced as an HTTP error.
C3_LoginIffBearerAccepted ==
    ChallengeSeen =>
        /\ IF seen[1].hdr.type = "Bearer"
                 /\ seen[1].hdr.error \in {NoParam, "", "insufficient_scope"}
           THEN IF LoginRefused(seen[1].hdr)
                THEN logins = 0 /\ Failed(raw) /\ Len(wire) = 1
                ELSE logins = 1
           ELSE /\ logins = 0
                /\ TokenRequestsSent = {}
                /\ Cardinality(RequestsSent) = 1
                /\ raw = "HTTPError"
        /\ Cardinality(RequestsSent) = 2 =>
                /\ logins = 1
                /\ wire[2].kind = "token"
                /\ seen[2].code = 200
                /\ seen[2].token \in Tokens

\* C3 witness: an insufficient_scope challenge was answered by a login and
\* the request has been sent again
C3_Witness ==
    /\ ChallengeSeen
    /\ seen[1].hdr.type = "Bearer"
    /\ seen[1].hdr.error = "insufficient_scope"
    /\ logins = 1
    /\ pc = "retry"
    /\ Cardinality(RequestsSent) = 2

\* C4: once a token exchange has succeeded, every request of the instance,
\* whatever its method (GET, HEAD, POST, PUT), goes out with the cached
\* Authorization header, and a Bearer challenge answering it leads to the
\* same login step.
C4_UniformAuthentication ==
    /\ (wire # <<>> /\ creds # NoCreds) =>
          /\ LastRequest.authorization = creds.authorization_header
          /\ LastRequest.authorization.scheme = "Bearer"
          /\ LastRequest.authorization.value \in Tokens
    /\ (wire # <<>> /\ creds = NoCreds) => LastRequest.authorization = NoHeader
    /\ (ChallengeSeen /\ seen[1].hdr.type = "Bearer" /\ seen[1].hdr.error = NoParam
          /\ seen[1].hdr.realm = "https://auth.example/token") =>
          /\ logins = 1
          /\ wire[2] = Message("token", "GET", NoHeader)

\* C4 witness: the PUT of an upload goes out with the token cached by a
\* login that an earlier request of the instance made
C4_Witness ==
    /\ call = "upload"
    /\ Len(calls) = 2
    /\ pc = "first"
    /\ creds # NoCreds
    /\ wire = <<Message("request", "PUT", creds.authorization_header)>>

\* The keystore holds credentials under one of the URLs of the realm's
\* registry
HoldsCredentialsFor(realm) ==
    /\ keystore # NoKeystore
    /\ forHost(realm) # NoInfo
    /\ \/ forHost(realm).cred_url \in keystore
       \/ forHost(realm).auth_url \in keystore

TokenExchangeFailed == pc = "idle" /\ Len(wire) = 2 /\ wire[2].kind = "token"

\* C29: if the token exchange after a 401 challenge fails (the exchange
\* request errors, or its reply holds no token), the original request is not
\* retried, the failure is surfaced as a login error, and the instance's
\* cached credentials and Authorization header stay as they were before the
\* exchange.
C29_FailedExchangeIsLoginError ==
    TokenExchangeFailed =>
        /\ Cardinality(RequestsSent) = 1
        /\ raw = "LoginError"
        /\ AuthorizationOf(creds) = wire[1].authorization

UploadEnded == call = "upload" /\ pc = "idle" /\ result # Pending
UploadSucceeded == UploadEnded /\ result.exc = "none"

\* C8: upload succeeds only if the POST returned a Location, the PUT to that
\* Location with digest=<digest> added to its query returned 201 and the
\* Docker-Content-Digest returned equals the digest uploaded; when one of
\* these fails the upload ends with a save error (ImageSaveError); no PUT is
\* issued when the Location is missing.
C8_UploadSuccessOrSaveError ==
    UploadEnded =>
        /\ result.exc = "none" =>
              /\ Len(calls) = 2
              /\ calls[2].method = "PUT"
              /\ calls[2].url.path # NoParam
              /\ calls[2].url.query[Len(calls[2].url.query)] = DigestParam(digest)
              /\ seen[Len(seen)].code = 201
              /\ seen[Len(seen)].dcd = digest
        /\ (Len(calls) = 1 /\ raw = "none") =>
              /\ seen[Len(seen)].location = NoLocation
              /\ result.exc = "ImageSaveError"
        /\ (Len(calls) = 2 /\ result.exc # "none"
              /\ (seen[Len(seen)].code \notin {201, 401}
                    \/ (seen[Len(seen)].code = 201 /\ seen[Len(seen)].dcd # digest))) =>
              result.exc = "ImageSaveError"

\* ------------------------------------------------------------------
\* Blob cache: ImageBlobCache and the cached path of download()
\* ------------------------------------------------------------------

\* A blob body as the chunks resp.read(65536) delivers it
Chunks == {1, 2}
Bodies == UNION { [1..n -> Chunks] : n \in 0..MaxChunks }

\* os.path.isfile(self._filename) is false
NoFile == <<0>>
FileStates == Bodies \cup {NoFile}

\* A slip a claim must notice: the cache is never consulted
cacheOpenNever(files, d) == NoFile

\* CacheObject.open(mode) for reading: None when the file is not there
cacheOpen(files, d) == files[d]

\* A slip a claim must notice: the loop leaves before writing the last chunk
cachePutDropsLast(body, n) == SubSeq(body, 1, IF n > 0 THEN n - 1 ELSE 0)

\* CacheObject.put(resp): the chunks are appended to the file as they are
\* read; n chunks had been read when the loop ended, all of them unless
\* resp.read raised.
cachePut(body, n) == SubSeq(body, 1, n)

\* How self.urlopen(req) of download() can end: an exception of _urlopen,
\* or a response with a status and a body
UrlopenOutcomes ==
    { [exc |-> e, status |-> 0, body |-> <<>>] :
          e \in {"HTTPError", "AuthenticationRequired", "LoginError"} }
      \cup { [exc |-> "none", status |-> 200, body |-> b] : b \in Bodies }
      \cup { [exc |-> "none", status |-> 204, body |-> <<>>] }

OpenRecord(d, from, exc, content, body) ==
    [digest |-> d, from |-> from, exc |-> exc, content |-> content, body |-> body]

\* download() after the cache was missed (lines 1024-1050): what the call
\* ends with and the file it leaves for digest d. n is the number of chunks
\* resp.read delivered before failing (all of them: no failure); an
\* interrupted put leaves the file with what had reached it by then.
downloadMiss(d, cached, out, n, onDisk) ==
    IF out.exc = "HTTPError"
    THEN [file |-> NoFile, open |-> OpenRecord(d, "network", RaiseWithPath("ImageLoadError"), <<>>, out.body)]
    ELSE IF out.exc # "none"
    THEN [file |-> NoFile, open |-> OpenRecord(d, "network", out.exc, <<>>, out.body)]
    ELSE IF out.status # 200
    THEN [file |-> NoFile, open |-> OpenRecord(d, "network", RaiseWithPath("ImageLoadError"), <<>>, out.body)]
    ELSE IF ~cached
    THEN [file |-> NoFile, open |-> OpenRecord(d, "network", "none", out.body, out.body)]
    ELSE IF n < Len(out.body)
    THEN [file |-> cachePut(out.body, onDisk),
          open |-> OpenRecord(d, "network", "OSError", <<>>, out.body)]
    ELSE [file |-> cachePut(out.body, n),
          open |-> OpenRecord(d, "network", "none", cachePut(out.body, n), out.body)]

InitCache ==
    /\ cacheOn \in BOOLEAN
    /\ cacheFiles \in [Digests -> FileStates]
    /\ opens = <<>>

\* openBlob(img, d) of the registry transport (897-905) with download()
\* (1011-1050): served from the cache when the file is there, else fetched
\* and, with a cache, stored and reopened from it
OpenBlob ==
    /\ Len(opens) < MaxOpens
    /\ \E d \in Digests :
          LET f == IF cacheOn THEN cacheOpen(cacheFiles, d) ELSE NoFile
          IN IF f # NoFile
             THEN /\ opens' = Append(opens, OpenRecord(d, "cache", "none", f, <<>>))
                  /\ UNCHANGED cacheFiles
             ELSE \E out \in UrlopenOutcomes :
                  \E n \in 0..Len(out.body) :
                  \E onDisk \in 0..n :
                     LET end == downloadMiss(d, cacheOn, out, n, onDisk)
                     IN /\ opens' = Append(opens, end.open)
                        /\ cacheFiles' =
                              IF end.file = NoFile
                              THEN cacheFiles
                              ELSE [cacheFiles EXCEPT ![d] = end.file]
    /\ UNCHANGED cacheOn
    /\ UNCHANGED notCache

\* The instance is dropped; the cache directory stays
ForgetOpens ==
    /\ opens # <<>>
    /\ opens' = <<>>
    /\ UNCHANGED <<cacheOn, cacheFiles>>
    /\ UNCHANGED notCache

NextCache == OpenBlob \/ ForgetOpens

\* --- claims about the blob cache

OpensOf(d) == { i \in 1..Len(opens) : opens[i].digest = d }

\* C5: with a cache directory, once an open of digest D has fetched the blob
\* (a miss that succeeds), the cache holds exactly the bytes fetched, and
\* every later open of D is served from the cache with the same bytes and
\* without a further network GET: two opens, one GET.
C5_CacheIdempotence ==
    cacheOn =>
        \A i \in 1..Len(opens) :
            (opens[i].from = "network" /\ opens[i].exc = "none") =>
                /\ opens[i].content = opens[i].body
                /\ cacheFiles[opens[i].digest] = opens[i].body
                /\ \A j \in OpensOf(opens[i].digest) :
                      j > i =>
                          /\ opens[j].from = "cache"
                          /\ opens[j].exc = "none"
                          /\ opens[j].content = opens[i].body
                /\ Cardinality({ j \in OpensOf(opens[i].digest) :
                                    j >= i /\ opens[j].from = "network" }) = 1

\* C5 witness: a blob was fetched on a miss and then opened again from the
\* cache with the same, non-empty content
C5_Witness ==
    /\ cacheOn
    /\ Len(opens) >= 2
    /\ opens[1].from = "network"
    /\ opens[1].exc = "none"
    /\ Len(opens[1].body) = MaxChunks
    /\ opens[2].digest = opens[1].digest
    /\ opens[2].from = "cache"
    /\ opens[2].content = opens[1].body

\* C28: if a blob download fails (HTTP error, a status other than 200, or a
\* read error while the response body is drained into the cache), no cache
\* file for that digest exists afterwards, and the next open of the same
\* digest goes to the network again instead of being served from the cache.
C28_FailedDownloadLeavesNoFile ==
    cacheOn =>
        \A i \in 1..Len(opens) :
            (opens[i].from = "network" /\ opens[i].exc # "none") =>
                /\ (\A j \in OpensOf(opens[i].digest) : j <= i) =>
                      cacheFiles[opens[i].digest] = NoFile
                /\ \A j \in OpensOf(opens[i].digest) :
                      (j > i /\ \A k \in OpensOf(opens[i].digest) : ~(i < k /\ k < j)) =>
                          opens[j].from = "network"

\* ------------------------------------------------------------------
\* save(): ImageFormat.save and what the three transports put under it
\* ------------------------------------------------------------------

Transports == {"docker", "dir", "oci-archive"}

\* The descriptors of the image handed to save(): the digest, and what the
\* media type is to MediaType ("layer": a vendor's type that is not its
\* external layer type, "external": a vendor's external layer type,
\* "no-vendor": a type of neither vendor table)
ConfigDigest == "sha256:cc"
LayerKinds == {"layer", "external", "no-vendor"}
LayerDescriptors == [digest : Digests, kind : LayerKinds]
ConfigDescriptor == [digest |-> ConfigDigest, kind |-> "layer"]
\* The manifest of the image is an ImageManifestV2 as parseManifest builds
\* it (155-176: the descriptors are kept in _config and _layers, and there is
\* no attribute `config` or `layers`), or an object the caller built with the
\* attributes config and layers that save() reads.
ManifestClasses == {"ImageManifestV2", "caller-built"}
Images ==
    { [config |-> ConfigDescriptor, layers |-> ls, manifestClass |-> c] :
          ls \in UNION { [1..n -> LayerDescriptors] : n \in 0..MaxLayers },
          c \in ManifestClasses }

\* A slip a claim must notice: the manifest is written before the blobs
SaveSequenceManifestFirst ==
    <<"savePreamble", "saveManifest", "saveConfig", "saveImageLayers">>

\* ImageFormat.save, lines 647-653: the four steps in the order written
SaveSequence == <<"savePreamble", "saveConfig", "saveImageLayers", "saveManifest">>

\* MediaType.isExternalReference, lines 1726-1727: self.vendor is None for
\* a type of neither vendor, and None has no mimeTypeLayerExternal
isExternalReference(d) ==
    IF d.kind = "no-vendor" THEN "AttributeError"
    ELSE IF d.kind = "external" THEN "True"
    ELSE "False"

\* blobExists of the directory (1260-1262) and of the archive (1450-1451)
NoDigest == "None"
blobExistsLocal(t, d, held, last) ==
    IF t = "dir" THEN (IF d.digest \in held THEN "True" ELSE "False")
    ELSE (IF last = d.digest THEN "True" ELSE "False")

\* blobExists of the registry (893-895) is httpHead: True on a 200, False
\* on another status or an HTTPError, or an exception httpHead lets through
HeadOutcomes(present) ==
    (IF present THEN {"True"} ELSE {}) \cup {"False", "AuthenticationRequired"}

\* What blobExists(img, d) can answer on transport t
ExistsOutcomes(t, d, held, last) ==
    IF t = "docker" THEN HeadOutcomes(d.digest \in held)
    ELSE {blobExistsLocal(t, d, held, last)}

\* How moving the bytes can end: tryToHardlinkBlob links only from and to a
\* directory (1271-1288) and falls back to the copy when os.link fails; the
\* copy is loader.openBlob plus saveBlob, either of which can raise
TransferOutcomes(t, fromPath) ==
    (IF t = "dir" /\ fromPath THEN {"linked"} ELSE {})
        \cup {"copied"}
        \cup (IF t = "docker" THEN {"HTTPError", RaiseWithPath("ImageSaveError")}
                              ELSE {"OSError"})

BlobEvent(d, external, exists, attempted, how, exc) ==
    [digest |-> d.digest, external |-> external, exists |-> exists,
     attempted |-> attempted, how |-> how, exc |-> exc]

\* ImageFormat.copyBlob, lines 694-708. `verbose` is not among the names
\* the module imports (line 21), so the branch taken when the blob is
\* already there ends in NameError.
copyBlob(d, exists, xfer) ==
    IF exists \notin {"True", "False"}
    THEN BlobEvent(d, "False", exists, FALSE, "none", exists)
    ELSE IF exists = "True"
    THEN BlobEvent(d, "False", exists, FALSE, "none", "NameError")
    ELSE IF xfer \in {"linked", "copied"}
    THEN BlobEvent(d, "False", exists, TRUE, xfer, "none")
    ELSE BlobEvent(d, "False", exists, TRUE, "none", xfer)

\* ImageFormat.saveLayer, lines 670-676
saveLayer(d, exists, xfer) ==
    LET ext == isExternalReference(d)
    IN IF ext = "AttributeError"
       THEN BlobEvent(d, ext, "n/a", FALSE, "none", "AttributeError")
       ELSE IF ext = "True"
       THEN BlobEvent(d, ext, "n/a", FALSE, "none", "none")
       ELSE copyBlob(d, exists, xfer)

\* What a manifest file holds: the digests, in order
NoManifest == [config |-> NoDigest, layers |-> <<>>]
NotLoaded == [exc |-> "pending", manifest |-> NoManifest]

\* The instance as its constructor leaves it (ImageFormatOCIArchive.__init__,
\* 1348-1359: _writing False, _lastBlobSaved None), a destination that may
\* hold blobs already, and the first save(img)
InitSave ==
    /\ transport \in Transports
    /\ image \in Images
    /\ srcPath \in BOOLEAN
    /\ stored \in SUBSET (Digests \cup {ConfigDigest})
    /\ (transport = "oci-archive" => stored = {})
    /\ lastBlobSaved = NoDigest
    /\ writing = FALSE
    /\ step = 1
    /\ layer = 1
    /\ events = <<>>
    /\ manifestWritten = FALSE
    /\ saveExc = "pending"
    /\ saves = 1
    /\ manifestFile = NoManifest
    /\ handles = 0
    /\ loaded = NotLoaded

Saving == saveExc = "pending" /\ step <= Len(SaveSequence)
AtStep(name) == Saving /\ SaveSequence[step] = name

\* The step returned; save() is over when it was the last one
StepDone ==
    /\ step' = step + 1
    /\ saveExc' = IF step = Len(SaveSequence) THEN "none" ELSE "pending"

\* The step raised: save() ends with the exception
StepRaised(exc) ==
    /\ step' = step
    /\ saveExc' = exc

\* What a blob event leaves in the destination
StoredAfter(e) == IF e.exc = "none" /\ e.attempted THEN stored \cup {e.digest} ELSE stored
LastAfter(e) ==
    IF transport = "oci-archive" /\ e.exc = "none" /\ e.attempted
    THEN e.digest ELSE lastBlobSaved

\* The file objects a member written through TarMemberWriter (1320-1345)
\* leaves open: the NamedTemporaryFile, which __exit__ flushes and never
\* closes, and, when the block did not raise, the file __exit__ opens on its
\* name to add it to the tar file
memberHandles(raised) == IF raised THEN 1 ELSE 2

\* The file objects a blob event leaves open: ImageFormatDir.saveBlob
\* (1303-1311) opens dst and ends with dst.flush(); the archive's saveBlob
\* (1453-1463) writes a tar member; a hard link and the registry's upload
\* open no file of their own
blobHandles(t, e) ==
    IF ~e.attempted \/ e.how = "linked" \/ t = "docker" THEN 0
    ELSE IF t = "dir" THEN 1
    ELSE memberHandles(e.exc # "none")

\* savePreamble: nothing on the registry (655-656), the version file in a
\* directory (1294-1296), a tar file opened for writing, so emptied, and its
\* oci-layout member in an archive (1411-1420); close() (1361-1363) only
\* forgets the tar file of an earlier save
SavePreamble ==
    /\ AtStep("savePreamble")
    /\ stored' = IF transport = "oci-archive" THEN {} ELSE stored
    /\ manifestFile' = IF transport = "oci-archive" THEN NoManifest ELSE manifestFile
    /\ writing' = (transport = "oci-archive")
    /\ handles' = IF transport = "oci-archive" THEN handles + 1 + memberHandles(FALSE)
                                                ELSE handles
    /\ StepDone
    /\ UNCHANGED <<transport, image, srcPath, lastBlobSaved, layer, events, manifestWritten,
                   saves, loaded>>
    /\ UNCHANGED notSave

\* self.saveConfig(img, img.manifest.config), line 650, and saveConfig,
\* lines 658-663: the config blob is copied and must then exist
SaveConfig ==
    /\ AtStep("saveConfig")
    /\ IF image.manifestClass = "ImageManifestV2"
       THEN /\ StepRaised("AttributeError")
            /\ UNCHANGED <<events, stored, lastBlobSaved, handles>>
       ELSE
          \E exists \in ExistsOutcomes(transport, image.config, stored, lastBlobSaved) :
          \E xfer \in TransferOutcomes(transport, srcPath) :
             LET e == copyBlob(image.config, exists, xfer)
             IN /\ events' = Append(events, e)
                /\ stored' = StoredAfter(e)
                /\ lastBlobSaved' = LastAfter(e)
                /\ handles' = handles + blobHandles(transport, e)
                /\ IF e.exc # "none"
                   THEN StepRaised(e.exc)
                   ELSE \E after \in ExistsOutcomes(transport, image.config,
                                                    StoredAfter(e), LastAfter(e)) :
                           IF after = "True" THEN StepDone
                           ELSE IF after = "False" THEN StepRaised("ImageSaveError")
                           ELSE StepRaised(after)
    /\ UNCHANGED <<transport, image, srcPath, writing, layer, manifestWritten,
                   saves, manifestFile, loaded>>
    /\ UNCHANGED notSave

\* saveImageLayers, lines 665-668: one turn of the loop, saveLayer of the
\* next layer of the manifest
SaveLayer ==
    /\ AtStep("saveImageLayers")
    /\ layer <= Len(image.layers)
    /\ \E exists \in ExistsOutcomes(transport, image.layers[layer], stored, lastBlobSaved) :
       \E xfer \in TransferOutcomes(transport, srcPath) :
          LET e == saveLayer(image.layers[layer], exists, xfer)
          IN /\ events' = Append(events, e)
             /\ stored' = StoredAfter(e)
             /\ lastBlobSaved' = LastAfter(e)
             /\ handles' = handles + blobHandles(transport, e)
             /\ IF e.exc # "none"
                THEN StepRaised(e.exc) /\ layer' = layer
                ELSE /\ layer' = layer + 1
                     /\ UNCHANGED <<step, saveExc>>
    /\ UNCHANGED <<transport, image, srcPath, writing, manifestWritten,
                   saves, manifestFile, loaded>>
    /\ UNCHANGED notSave

\* saveImageLayers: the loop is through
SaveImageLayersReturns ==
    /\ AtStep("saveImageLayers")
    /\ layer > Len(image.layers)
    /\ StepDone
    /\ UNCHANGED <<transport, image, srcPath, stored, lastBlobSaved, writing, layer,
                   events, manifestWritten, saves, manifestFile, handles, loaded>>
    /\ UNCHANGED notSave

\* How saveManifest can end. The registry's (911-921) reads self.version,
\* which ImageFormatDockerRegistry.__init__ (788-794) never sets, so it ends
\* in AttributeError before uploadManifest is called; a directory writes
\* manifest.json (1298-1301) and an archive index.json (1442-1448).
saveManifestOutcomes(t) ==
    IF t = "docker" THEN {"AttributeError"} ELSE {"none", "OSError"}

\* JSONObjectEncoder.default (322-337) writes the attributes of an object
\* whose names do not start with '_' and whose values are neither callable
\* nor None: of a caller-built manifest its config and layers descriptors
\* with their digests, of an ImageManifestV2 neither (they are _config and
\* _layers).
storeJSON(img) ==
    IF img.manifestClass = "caller-built"
    THEN [config |-> img.config.digest,
          layers |-> [i \in 1..Len(img.layers) |-> img.layers[i].digest]]
    ELSE NoManifest

\* saveManifest, the last statement of save()
SaveManifest ==
    /\ AtStep("saveManifest")
    /\ \E put \in saveManifestOutcomes(transport) :
          /\ IF put = "none"
             THEN /\ manifestWritten' = TRUE
                  /\ manifestFile' = storeJSON(image)
                  /\ StepDone
             ELSE /\ manifestWritten' = manifestWritten
                  /\ manifestFile' = manifestFile
                  /\ StepRaised(put)
          /\ handles' = IF transport = "oci-archive"
                        THEN handles + memberHandles(put # "none")
                        ELSE handles
    /\ UNCHANGED <<transport, image, srcPath, stored, lastBlobSaved, writing, layer, events,
                   saves, loaded>>
    /\ UNCHANGED notSave

\* The same image is saved again through the same instance
SaveAgain ==
    /\ saveExc # "pending"
    /\ saves < MaxSaves
    /\ saves' = saves + 1
    /\ step' = 1
    /\ layer' = 1
    /\ events' = <<>>
    /\ manifestWritten' = FALSE
    /\ saveExc' = "pending"
    /\ loaded' = NotLoaded
    /\ UNCHANGED <<transport, image, srcPath, stored, lastBlobSaved, writing,
                   manifestFile, handles>>
    /\ UNCHANGED notSave

\* ImageFormatDir.load, lines 1220-1232: the version file is read, then
\* manifest.json is opened and parseManifest called with the keyword
\* missingMediaTypeOK, which parseManifest(self, f) (594) does not take:
\* the call ends in TypeError before the file is read.
dirLoad(versionFile, mf) ==
    IF ~versionFile \/ mf = NoManifest
    THEN [exc |-> "FileNotFoundError", manifest |-> NoManifest]
    ELSE [exc |-> "TypeError", manifest |-> NoManifest]

\* load() of the directory a save() has ended on
LoadDir ==
    /\ transport = "dir"
    /\ saveExc # "pending"
    /\ loaded = NotLoaded
    /\ loaded' = dirLoad(TRUE, manifestFile)
    /\ UNCHANGED <<transport, image, srcPath, stored, lastBlobSaved, writing, step, layer,
                   events, manifestWritten, saveExc, saves, manifestFile, handles>>
    /\ UNCHANGED notSave

NextSave ==
    \/ SavePreamble \/ SaveConfig \/ SaveLayer \/ SaveImageLayersReturns \/ SaveManifest
    \/ SaveAgain \/ LoadDir

\* --- claims about save()

\* The blobs save() has to store: the config, then the layers that are not
\* external references, in manifest order
IsToStore(d) == d.kind # "external"
BlobsToStore == <<image.config.digest>>
                  \o [i \in 1..Len(SelectSeq(image.layers, IsToStore)) |->
                          SelectSeq(image.layers, IsToStore)[i].digest]
WasStored(e) == e.exc = "none" /\ e.attempted
BlobsStored == [i \in 1..Len(SelectSeq(events, WasStored)) |->
                    SelectSeq(events, WasStored)[i].digest]

\* C6: on every transport the manifest is written only after the config
\* blob and every non-external layer blob were stored without error, config
\* first and the layers in manifest order; a save that raised has not
\* written the manifest.
C6_ManifestLast ==
    /\ manifestWritten =>
          /\ BlobsStored = BlobsToStore
          /\ \A i \in 1..Len(events) : events[i].exc = "none"
          /\ layer = Len(image.layers) + 1
          /\ \A i \in 1..Len(BlobsToStore) : BlobsToStore[i] \in stored
    /\ (saveExc \notin {"pending", "none"}) => ~manifestWritten
    /\ (\E i \in 1..Len(events) : events[i].exc # "none") =>
          /\ saveExc \notin {"pending", "none"}
          /\ ~manifestWritten

\* C6 witness: a save of an image with a layer to store and an external
\* layer has written the manifest
C6_Witness ==
    /\ manifestWritten
    /\ saveExc = "none"
    /\ Len(image.layers) >= 2
    /\ image.layers[1].kind = "layer"
    /\ image.layers[2].kind = "external"
    /\ BlobsStored = <<ConfigDigest, image.layers[1].digest>>

\* C7: a blob is transferred if and only if its descriptor is no external
\* reference and blobExists reports it absent; an external reference causes
\* no transfer, and a blob already present is skipped without error.
C7_TransferIffAbsent ==
    \A i \in 1..Len(events) :
        /\ events[i].attempted <=>
              (events[i].external = "False" /\ events[i].exists = "False")
        /\ events[i].external = "True" => (~events[i].attempted /\ events[i].exc = "none")
        /\ events[i].exists = "True" => (~events[i].attempted /\ events[i].exc = "none")

\* C12: save(image) into a directory followed by load() of that directory
\* yields a manifest equal to the one saved (same config digest, same layer
\* digests in the same order), and every blob of the image is in the
\* directory as it was copied or linked from its source.
C12_DirRoundTrip ==
    (transport = "dir" /\ saveExc = "none" /\ loaded # NotLoaded) =>
        /\ loaded.exc = "none"
        /\ loaded.manifest.config = image.config.digest
        /\ loaded.manifest.layers = [i \in 1..Len(image.layers) |-> image.layers[i].digest]
        /\ \A i \in 1..Len(BlobsToStore) : BlobsToStore[i] \in stored

LastWrittenBefore(i) ==
    LET written == { j \in 1..(i - 1) : WasStored(events[j]) }
    IN IF written = {} THEN NoDigest
       ELSE events[CHOOSE j \in written : \A k \in written : k <= j].digest

\* C20: in a save to an archive, blobExists(d) is true exactly when d's
\* digest is the digest written last in that save: false for every digest
\* before the first blob of the save is written, and false for a digest
\* written earlier once another blob was written after it.
C20_ExistsIsLastWritten ==
    transport = "oci-archive" =>
        \A i \in 1..Len(events) :
            events[i].exists \in {"True", "False"} =>
                (events[i].exists = "True" <=> LastWrittenBefore(i) = events[i].digest)

\* C26: parsing any media type string succeeds, and for a string outside
\* both vendor tables (vendor none) each of the four classification tests
\* returns false; so saving an image whose layer has such a media type treats
\* the layer as an ordinary, non-external blob: isExternalReference answers
\* False for it and the layer goes to copyBlob.
C26_UnknownVendorIsOrdinaryBlob ==
    \A i \in 2..Len(events) :
        image.layers[i - 1].kind = "no-vendor" =>
            /\ events[i].external = "False"
            /\ events[i].exists # "n/a"

\* ------------------------------------------------------------------
\* MediaType: parsing, serializing and changing the vendor of a media type
\* ------------------------------------------------------------------

\* A media type string is modelled as the sequence of its parts: the vendor
\* prefix, the rest of the base type and, when there is one, a separator and
\* a suffix. Concatenation of strings is \o, str.startswith a test of the
\* first part, str.endswith(sepa + compression) a test of the last two.
PrefixOCI == "application/vnd.oci."
PrefixDocker == "application/vnd.docker."
PrefixOther == "application/vnd.example."

Vendors == {"docker", "oci"}
NoVendor == "None"
NoCompression == "None"
Roles == {"mimeTypeImageIndex", "mimeTypeManifest", "mimeTypeConfig",
          "mimeTypeLayer", "mimeTypeLayerExternal"}
NoRole == "None"

\* MediaType.VendorDocker and MediaType.VendorOCI, lines 1616-1636
separator(v) == IF v = "docker" THEN "." ELSE "+"
VendorDocker ==
    [mimeTypeImageIndex |-> <<PrefixDocker, "distribution.manifest.list.v2+json">>,
     mimeTypeManifest |-> <<PrefixDocker, "distribution.manifest.v2+json">>,
     mimeTypeConfig |-> <<PrefixDocker, "container.image.v1+json">>,
     mimeTypeLayer |-> <<PrefixDocker, "image.rootfs.diff.tar">>,
     mimeTypeLayerExternal |-> <<PrefixDocker, "image.rootfs.foreign.diff.tar">>]
VendorOCI ==
    [mimeTypeImageIndex |-> <<PrefixOCI, "image.index.v1+json">>,
     mimeTypeManifest |-> <<PrefixOCI, "image.manifest.v1+json">>,
     mimeTypeConfig |-> <<PrefixOCI, "image.config.v1+json">>,
     mimeTypeLayer |-> <<PrefixOCI, "image.layer.v1.tar">>,
     mimeTypeLayerExternal |-> <<PrefixOCI, "image.layer.nondistributable.v1.tar">>]
VendorTable(v) == IF v = "docker" THEN VendorDocker ELSE VendorOCI

\* MediaType.compressionAlgorithms, lines 1638-1641, in the order tried
compressionAlgorithms == <<"gzip", "zstd">>

\* The strings a MediaType is built from: the types of both vendor tables
\* and types of neither, bare or followed by either separator and a
\* compression the code knows or does not know
BaseTypes ==
    { VendorTable(v)[r] : v \in Vendors, r \in Roles }
        \cup { <<PrefixOCI, "image.other.v1">>, <<PrefixDocker, "plugin.v1+json">>,
               <<PrefixOther, "image.layer.v1.tar">> }
Suffixes == { <<>> } \cup { <<s, c>> : s \in {".", "+"}, c \in {"gzip", "zstd", "xz"} }
MediaTypeStrings == { b \o s : b \in BaseTypes, s \in Suffixes }

MediaTypeObject(base, compression, vendor) ==
    [baseMIMEType |-> base, compression |-> compression, vendor |-> vendor]
NoMediaType == MediaTypeObject(<<>>, NoCompression, NoVendor)

startswith(mt, prefix) == Len(mt) >= 1 /\ mt[1] = prefix
endswith(mt, sepa, compression) ==
    Len(mt) >= 2 /\ mt[Len(mt) - 1] = sepa /\ mt[Len(mt)] = compression

\* MediaType.__init__, lines 1643-1660
MediaTypeInit(mt) ==
    LET vendor == IF startswith(mt, PrefixOCI) THEN "oci"
                  ELSE IF startswith(mt, PrefixDocker) THEN "docker"
                  ELSE NoVendor
        found == IF vendor = NoVendor THEN {}
                 ELSE { i \in 1..Len(compressionAlgorithms) :
                           endswith(mt, separator(vendor), compressionAlgorithms[i]) }
    IN IF found = {}
       THEN MediaTypeObject(mt, NoCompression, vendor)
       ELSE LET first == CHOOSE i \in found : \A j \in found : i <= j
            IN MediaTypeObject(SubSeq(mt, 1, Len(mt) - 2), compressionAlgorithms[first], vendor)

\* MediaType.__repr__, lines 1662-1666: "".join(a, b, c) hands str.join
\* three arguments where it takes one, so the branch of a compressed type
\* ends in TypeError
mediaTypeRepr(m) ==
    IF m.compression = NoCompression
    THEN [exc |-> "none", value |-> m.baseMIMEType]
    ELSE [exc |-> "TypeError", value |-> <<>>]

\* MediaType._identifyMIMEType, lines 1745-1751: the attribute of the
\* vendor class whose value is the base type; name and separator are among
\* the attributes looked at, and are the base type of no media type
identifyMIMEType(m) ==
    IF m.vendor = NoVendor THEN NoRole
    ELSE IF \E r \in Roles : VendorTable(m.vendor)[r] = m.baseMIMEType
         THEN CHOOSE r \in Roles : VendorTable(m.vendor)[r] = m.baseMIMEType
         ELSE NoRole

\* A plausible slip: the new vendor is not recorded with the new base type
changeVendorKeepsVendor(m, vendor) ==
    IF identifyMIMEType(m) = NoRole
    THEN [exc |-> "TypeError", mt |-> m]
    ELSE [exc |-> "none",
          mt |-> [m EXCEPT !.baseMIMEType = VendorTable(vendor)[identifyMIMEType(m)]]]

\* MediaType.changeVendor, lines 1737-1743: getattr(vendor, None) raises
\* TypeError when no attribute of the vendor class holds the base type
changeVendor(m, vendor) ==
    IF identifyMIMEType(m) = NoRole
    THEN [exc |-> "TypeError", mt |-> m]
    ELSE [exc |-> "none",
          mt |-> [m EXCEPT !.baseMIMEType = VendorTable(vendor)[identifyMIMEType(m)],
                           !.vendor = vendor]]

NoRepr == [exc |-> "pending", value |-> <<>>]

InitMedia ==
    /\ mtString \in MediaTypeStrings
    /\ mediaType = MediaTypeInit(mtString)
    /\ mtHistory = <<MediaTypeInit(mtString)>>
    /\ mtExc = "none"
    /\ mtRepr = NoRepr

\* repr(mt) of the object as built
Repr ==
    /\ mtRepr = NoRepr
    /\ mtRepr' = mediaTypeRepr(mtHistory[1])
    /\ UNCHANGED <<mtString, mediaType, mtHistory, mtExc>>
    /\ UNCHANGED notMedia

\* mt.changeVendor(vendor)
ChangeVendor ==
    /\ mtExc = "none"
    /\ Len(mtHistory) <= MaxChanges
    /\ \E v \in { "docker", "oci" } :
          LET r == changeVendor(mediaType, v)
          IN /\ mediaType' = r.mt
             /\ mtExc' = r.exc
             /\ mtHistory' = IF r.exc = "none" THEN Append(mtHistory, r.mt) ELSE mtHistory
    /\ UNCHANGED <<mtString, mtRepr>>
    /\ UNCHANGED notMedia

NextMedia == Repr \/ ChangeVendor

\* --- claims about MediaType

\* The media type strings the claims call supported: a type of a vendor
\* table, bare or followed by that vendor's separator and gzip or zstd
Supported ==
    \E v \in Vendors, r \in Roles :
        \/ mtString = VendorTable(v)[r]
        \/ \E c \in {"gzip", "zstd"} : mtString = VendorTable(v)[r] \o <<separator(v), c>>

\* C14: for every supported media type string mt, with or without
\* compression, serializing the parsed media type gives back mt, and for a
\* compressed type base + vendor separator + compression equals mt.
C14_SerializeParse ==
    (Supported /\ mtRepr # NoRepr) =>
        /\ mtRepr = [exc |-> "none", value |-> mtString]
        /\ mtHistory[1].compression # NoCompression =>
              mtHistory[1].baseMIMEType
                  \o <<separator(mtHistory[1].vendor), mtHistory[1].compression>> = mtString

\* The base type of m is one of the five types of its vendor's table
PlaysRole(m) ==
    /\ m.vendor \in Vendors
    /\ \E r \in Roles : VendorTable(m.vendor)[r] = m.baseMIMEType

\* C15: changeVendor is an involution: a media type of vendor V1 whose base
\* type plays a role of V1's table, changed to a vendor V2 and then back to
\* V1, is the media type it was, compression included; and changeVendor
\* fails exactly when the base type plays no role of its vendor's table.
C15_ChangeVendorInvolution ==
    /\ (Len(mtHistory) >= 3 /\ mtHistory[3].vendor = mtHistory[1].vendor) =>
          mtHistory[3] = mtHistory[1]
    /\ \A i \in 2..Len(mtHistory) :
          /\ mtHistory[i].compression = mtHistory[1].compression
          /\ PlaysRole(mtHistory[i])
    /\ mtExc # "none" =>
          /\ mtExc = "TypeError"
          /\ ~PlaysRole(mtHistory[1])
          /\ Len(mtHistory) = 1
    /\ Len(mtHistory) >= 2 => PlaysRole(mtHistory[1])

\* C15 witness: a gzip-compressed OCI layer type was changed to Docker and
\* back to OCI
C15_Witness ==
    /\ Len(mtHistory) >= 3
    /\ mtString = <<PrefixOCI, "image.layer.v1.tar", "+", "gzip">>
    /\ mtHistory[2] = MediaTypeObject(VendorDocker.mimeTypeLayer, "gzip", "docker")
    /\ mtHistory[3] = MediaTypeObject(VendorOCI.mimeTypeLayer, "gzip", "oci")

\* ------------------------------------------------------------------
\* ImageReference: parsing a reference string
\* ------------------------------------------------------------------

\* A reference string is modelled as the sequence of its parts: names, "/"
\* and ":"; "//" and "https://" are the parts guessURL puts in front.
NoHost == "None"
NoTag == "None"
DefaultRegistryHost == "registry.opensuse.org"
Hosts == {"myregistry.example.com"}
Segments == {"team", "app"}
Tags == {"v2"}
Paths == UNION { [1..n -> Segments] : n \in 1..MaxSegments }
RefInputs == [host : Hosts \cup {NoHost}, segs : Paths, tag : Tags \cup {NoTag}]

RECURSIVE joinSlash(_)
joinSlash(segs) ==
    IF Len(segs) = 0 THEN <<>>
    ELSE IF Len(segs) = 1 THEN <<segs[1]>>
    ELSE <<segs[1], "/">> \o joinSlash(Tail(segs))

\* The reference string written for an input
refString(in) ==
    (IF in.host = NoHost THEN <<>> ELSE <<in.host, "/">>)
        \o joinSlash(in.segs)
        \o (IF in.tag = NoTag THEN <<>> ELSE <<":", in.tag>>)

\* The positions of a part in a string
PositionsOf(s, part) == { i \in 1..Len(s) : s[i] = part }
Smallest(S) == CHOOSE i \in S : \A j \in S : i <= j
Largest(S) == CHOOSE i \in S : \A j \in S : j <= i

\* urllib.parse.urlparse(path, scheme = 'https'): a network location is
\* found only after "//"; it ends at the first "/", where the path starts
urlparse(s) ==
    IF Len(s) >= 1 /\ s[1] \in {"//", "https://"}
    THEN LET rest == Tail(s)
             slashes == PositionsOf(rest, "/")
         IN IF slashes = {}
            THEN [netloc |-> rest, path |-> <<>>]
            ELSE [netloc |-> SubSeq(rest, 1, Smallest(slashes) - 1),
                  path |-> SubSeq(rest, Smallest(slashes), Len(rest))]
    ELSE [netloc |-> <<>>, path |-> s]

NoURL2 == [netloc |-> <<>>, path |-> <<>>]

\* ImageReference.tryThisURL, lines 88-102: None without a network location
\* or when socket.gethostbyname does not resolve it
tryThisURL(s, resolving) ==
    LET url == urlparse(s)
    IN IF url.netloc = <<>> THEN NoURL2
       ELSE IF Len(url.netloc) = 1 /\ url.netloc[1] \in resolving THEN url
       ELSE NoURL2

\* A plausible slip: the string is never tried as host/path
guessURLDefaultOnly(s, resolving) ==
    LET u == tryThisURL(<<"https://", DefaultRegistryHost, "/">> \o s, resolving)
    IN IF u # NoURL2 THEN [exc |-> "none", url |-> u]
       ELSE [exc |-> "ValueError", url |-> NoURL2]

\* ImageReference.guessURL, lines 76-86: the string as it is, then after
\* "//", then as a path of the default registry
guessURL(s, resolving) ==
    LET u1 == tryThisURL(s, resolving)
        u2 == tryThisURL(<<"//">> \o s, resolving)
        u3 == tryThisURL(<<"https://", DefaultRegistryHost, "/">> \o s, resolving)
    IN IF u1 # NoURL2 THEN [exc |-> "none", url |-> u1]
       ELSE IF u2 # NoURL2 THEN [exc |-> "none", url |-> u2]
       ELSE IF u3 # NoURL2 THEN [exc |-> "none", url |-> u3]
       ELSE [exc |-> "ValueError", url |-> NoURL2]

\* str.strip("/")
RECURSIVE stripSlashes(_)
stripSlashes(s) ==
    IF Len(s) = 0 THEN s
    ELSE IF s[1] = "/" THEN stripSlashes(Tail(s))
    ELSE IF s[Len(s)] = "/" THEN stripSlashes(SubSeq(s, 1, Len(s) - 1))
    ELSE s

NoReference == [exc |-> "pending", registry |-> <<>>, name |-> <<>>, tag |-> <<>>]

\* ImageReference.__init__, lines 40-51
ImageReferenceInit(registry, name) ==
    LET colons == PositionsOf(name, ":")
    IN [exc |-> "none",
        registry |-> IF registry = <<>> THEN <<"localhost">> ELSE registry,
        name |-> stripSlashes(IF colons = {} THEN name
                              ELSE SubSeq(name, 1, Largest(colons) - 1)),
        tag |-> IF colons = {} THEN <<"latest">>
                ELSE SubSeq(name, Largest(colons) + 1, Len(name))]

\* ImageReference.parse, lines 70-74
parseReference(s, resolving) ==
    LET g == guessURL(s, resolving)
    IN IF g.exc # "none"
       THEN [exc |-> g.exc, registry |-> <<>>, name |-> <<>>, tag |-> <<>>]
       ELSE ImageReferenceInit(g.url.netloc, g.url.path)

InitReference ==
    /\ refInput \in RefInputs
    /\ dns \in SUBSET (Hosts \cup Segments \cup {DefaultRegistryHost})
    /\ parsedRef = NoReference

\* ImageReference.parse(path)
ParseReference ==
    /\ parsedRef = NoReference
    /\ parsedRef' = parseReference(refString(refInput), dns)
    /\ UNCHANGED <<refInput, dns>>
    /\ UNCHANGED notReference

\* The caller goes on to another reference string
NextReference ==
    /\ parsedRef # NoReference
    /\ refInput' \in RefInputs
    /\ parsedRef' = NoReference
    /\ UNCHANGED dns
    /\ UNCHANGED notReference

NextReferences == ParseReference \/ NextReference

\* --- claims about ImageReference

FirstPart == refString(refInput)[1]
HasSlash == PositionsOf(refString(refInput), "/") # {}
FirstIsHost == HasSlash /\ FirstPart \in dns
OnlyPartIsHost == ~HasSlash /\ refInput.tag = NoTag /\ FirstPart \in dns
AllParts == (IF refInput.host = NoHost THEN <<>> ELSE <<refInput.host>>) \o refInput.segs

ImageNames == {"A", "B"}
Loaders == {"docker", "dir"}
\* The media types the shared layer is listed with
LayerMediaTypes ==
    UNION { { VendorTable(v).mimeTypeLayer, VendorTable(v).mimeTypeLayer \o <<separator(v), "gzip">> } :
                v \in Vendors }
        \cup { VendorOCI.mimeTypeConfig }
MapImages ==
    [generation : 1..MaxGeneration, manifestClass : ManifestClasses,
     loader : Loaders, mediaType : LayerMediaTypes]

\* MediaType.isImageLayer, lines 1720-1724
isImageLayer(m) ==
    m.vendor # NoVendor /\ m.baseMIMEType = VendorTable(m.vendor).mimeTypeLayer

\* MediaType.makeExternalReference, lines 1729-1735
makeExternalReference(m) ==
    IF m.vendor = NoVendor THEN [exc |-> "AssertionError", mt |-> m]
    ELSE IF ~isImageLayer(m) THEN [exc |-> "ValueError", mt |-> m]
    ELSE [exc |-> "none",
          mt |-> [m EXCEPT !.baseMIMEType = VendorTable(m.vendor).mimeTypeLayerExternal]]

\* ImageFormat.blobURL, lines 682-683, overridden by
\* ImageFormatDockerRegistry.blobURL alone, lines 1000-1001
blobURL(loader) == IF loader = "docker" THEN "none" ELSE "NotImplementedError"

NoLayerInfo == [generation |-> 0, image |-> "None", mt |-> NoMediaType]
LayerInfo(generation, name, mt) == [generation |-> generation, image |-> name, mt |-> mt]

\* OCIDescriptor.asExternalReference and makeExternalReference, lines
\* 278-289: the media type is changed, serialized with repr(), and the
\* blob's URL at the image's loader is added
asExternalReference(name, img) ==
    LET made == makeExternalReference(MediaTypeInit(img.mediaType))
    IN IF made.exc # "none" THEN [exc |-> made.exc, mt |-> NoMediaType]
       ELSE IF mediaTypeRepr(made.mt).exc # "none"
       THEN [exc |-> mediaTypeRepr(made.mt).exc, mt |-> NoMediaType]
       ELSE IF blobURL(img.loader) # "none"
       THEN [exc |-> blobURL(img.loader), mt |-> NoMediaType]
       ELSE [exc |-> "none", mt |-> made.mt]

\* LayerMap.addReferencedLayer with LayerMap.add, lines 1833-1866 and
\* 1808-1818: img.manifest.layers is read first (an ImageManifestV2 has no
\* such attribute); a layer mapped with a generation not higher stays;
\* add()'s assertion holds whenever it is reached. The second add(), for the
\* uncompressed digest of a compressed layer, is behind the repr() of a
\* compressed media type.
addReferencedLayer(held, name, img) ==
    IF img.manifestClass = "ImageManifestV2"
    THEN [exc |-> "AttributeError", map |-> held]
    ELSE IF ~isImageLayer(MediaTypeInit(img.mediaType))
    THEN [exc |-> "none", map |-> held]
    ELSE IF held # NoLayerInfo /\ held.generation <= img.generation
    THEN [exc |-> "none", map |-> held]
    ELSE LET ref == asExternalReference(name, img)
         IN IF ref.exc # "none" THEN [exc |-> ref.exc, map |-> held]
            ELSE IF held # NoLayerInfo /\ ~(img.generation < held.generation)
            THEN [exc |-> "AssertionError", map |-> held]
            ELSE [exc |-> "none", map |-> LayerInfo(img.generation, name, ref.mt)]

\* The media types of the descriptor a reference is asked for
LookupMediaTypes ==
    { VendorOCI.mimeTypeLayer, VendorDocker.mimeTypeLayer, <<PrefixOther, "image.layer.v1.tar">> }

NoLookup ==
    [exc |-> "pending", image |-> "None", mt |-> NoMediaType, asked |-> <<>>,
     before |-> NoLayerInfo]

\* What a method of a descriptor ends with: the exception, the descriptor
\* returned, and the descriptor it was called on as the call leaves it
Rewritten(exc, name, mt, self) == [exc |-> exc, image |-> name, mt |-> mt, self |-> self]

\* A plausible slip: the stored descriptor itself is rewritten and returned
asVendorInPlace(info, vendor) ==
    IF vendor = NoVendor THEN Rewritten("AttributeError", "None", NoMediaType, info)
    ELSE LET changed == changeVendor(info.mt, vendor)
         IN IF changed.exc # "none"
            THEN Rewritten(changed.exc, "None", NoMediaType, info)
            ELSE Rewritten("none", info.image, changed.mt, [info EXCEPT !.mt = changed.mt])

\* OCIDescriptor.asVendor, lines 301-307: the vendor is changed on a deep
\* copy, which is serialized with repr(); getattr(None, ...) for a
\* descriptor of no vendor raises AttributeError
asVendor(info, vendor) ==
    IF vendor = NoVendor THEN Rewritten("AttributeError", "None", NoMediaType, info)
    ELSE LET changed == changeVendor(info.mt, vendor)
         IN IF changed.exc # "none"
            THEN Rewritten(changed.exc, "None", NoMediaType, info)
            ELSE IF mediaTypeRepr(changed.mt).exc # "none"
            THEN Rewritten(mediaTypeRepr(changed.mt).exc, "None", NoMediaType, info)
            ELSE Rewritten("none", info.image, changed.mt, info)

\* LayerMap.getReference, lines 1868-1885: the reference returned, and the
\* entry of the map as the call leaves it
getReference(held, mt) ==
    IF held = NoLayerInfo THEN Rewritten("none", "None", NoMediaType, held)
    ELSE IF held.mt.vendor # MediaTypeInit(mt).vendor
    THEN asVendor(held, MediaTypeInit(mt).vendor)
    ELSE Rewritten("none", held.image, held.mt, held)

InitLayerMap ==
    /\ mapImages \in [ImageNames -> MapImages]
    /\ layerMap = NoLayerInfo
    /\ mapped = <<>>
    /\ reference = NoLookup

WasMapped(name) == \E i \in 1..Len(mapped) : mapped[i].image = name

\* layerMap.addReferencedLayer(img, d)
AddReferencedLayer(name) ==
    /\ reference = NoLookup
    /\ ~WasMapped(name)
    /\ LET r == addReferencedLayer(layerMap, name, mapImages[name])
       IN /\ layerMap' = r.map
          /\ mapped' = Append(mapped, [image |-> name, exc |-> r.exc])
    /\ UNCHANGED <<mapImages, reference>>
    /\ UNCHANGED notLayerMap

\* layerMap.getReference(d)
GetReference ==
    /\ reference = NoLookup
    /\ \E mt \in LookupMediaTypes :
          LET r == getReference(layerMap, mt)
          IN /\ reference' = [exc |-> r.exc, image |-> r.image, mt |-> r.mt,
                              asked |-> mt, before |-> layerMap]
             /\ layerMap' = r.self
    /\ UNCHANGED <<mapImages, mapped>>
    /\ UNCHANGED notLayerMap

NextLayerMap == (\E name \in ImageNames : AddReferencedLayer(name)) \/ GetReference

\* --- claims about the LayerMap

\* C13: when the same layer digest is present in image A (fewer layers) and
\* image B (more layers), getReference for that digest returns the reference
\* recorded against A, whether A or B was added to the map first.
C13_LowerGenerationPreferred ==
    ( /\ WasMapped("A") /\ WasMapped("B")
      /\ mapImages["A"].generation < mapImages["B"].generation
      /\ \A n \in ImageNames : isImageLayer(MediaTypeInit(mapImages[n].mediaType))
      /\ reference # NoLookup )
        => reference.exc = "none" /\ reference.image = "A"

\* isExternalReference of a media type object, lines 1726-1727
IsExternalType(mt) ==
    mt.vendor # NoVendor /\ mt.baseMIMEType = VendorTable(mt.vendor).mimeTypeLayerExternal

AddedWithLayer ==
    { n \in ImageNames : WasMapped(n) /\ isImageLayer(MediaTypeInit(mapImages[n].mediaType)) }

\* C27: for any sequence of addReferencedLayer calls (the images having a
\* manifest with a layers list and a registry loader), no call fails, on the
\* assertion of LayerMap.add or otherwise, and afterwards the digest of a
\* layer, compressed or not, is recorded in the map with the lowest
\* generation among the images added that contain it.
C27_LowestGenerationRecorded ==
    ( /\ AddedWithLayer # {}
      /\ \A n \in ImageNames :
            WasMapped(n) => /\ mapImages[n].manifestClass = "caller-built"
                            /\ mapImages[n].loader = "docker" )
        => /\ \A i \in 1..Len(mapped) : mapped[i].exc = "none"
           /\ layerMap # NoLayerInfo
           /\ \A n \in AddedWithLayer : layerMap.generation <= mapImages[n].generation

\* ------------------------------------------------------------------
\* ImageFormatDockerRegistry.load: index, descriptor, manifest
\* ------------------------------------------------------------------

\* The attributes ImageFormat.__init__ (553-556) and
\* ImageFormatDockerRegistry.__init__ (788-794) set, with the properties
\* name and tag (796-802); there is no attribute `version` or `path`
InstanceAttributes == {"_cache", "architecture", "_keystore", "key", "creds", "url", "name", "tag"}

SchemaVersions == {1, 2}
FetchStatuses == {200, 404}
Served ==
    [index : Indexes, schemaVersion : SchemaVersions,
     indexStatus : FetchStatuses, manifestStatus : FetchStatuses]

NoImage == [manifest |-> 0, schemaVersion |-> 0]
LoadEnds(exc, img, urls) == [exc |-> exc, image |-> img, fetched |-> urls]
LoadPending == LoadEnds("pending", NoImage, <<>>)

\* ImageFormat.parseImageIndex, lines 578-579: MediaType.indexValidator
\* (1700-1702) hands MediaType.Validator two positional arguments where its
\* __init__ (1677) takes one, and loadJSON (633) is handed three where it
\* takes two; the argument is evaluated first
parseImageIndex(index) == [exc |-> "TypeError", mfList |-> <<>>]

\* ImageFormat.parseManifest, lines 594-601
parseManifest(schemaVersion) == IF schemaVersion # 2 THEN "ValueError" ELSE "none"

\* openURL -> download, lines 887-888 and 1033-1050: a status other than 200
\* is to raise ImageLoadError(self.path, ...)
openURL(status) == IF status # 200 THEN RaiseWithPath("ImageLoadError") ELSE "none"

\* v2/<name>/manifests/<version> and v2/<name>/manifests/<digest>
IndexURL == [manifests |-> "version", digest |-> 0]
ManifestURL(d) == [manifests |-> "digest", digest |-> d.digest]

\* ImageFormatDockerRegistry.load, lines 866-885; pickManifestFromIndex is
\* called with its default architecture (line 873 passes mfList alone), and
\* self.architecture, here arch, is read nowhere in load
registryLoad(attributes, arch, s) ==
    IF "version" \notin attributes
    THEN LoadEnds("AttributeError", NoImage, <<>>)
    ELSE IF openURL(s.indexStatus) # "none"
    THEN LoadEnds(openURL(s.indexStatus), NoImage, <<IndexURL>>)
    ELSE IF parseImageIndex(s.index).exc # "none"
    THEN LoadEnds(parseImageIndex(s.index).exc, NoImage, <<IndexURL>>)
    ELSE LET p == pickManifestFromIndex(parseImageIndex(s.index).mfList, "amd64")
         IN IF p.exc # "none" THEN LoadEnds(p.exc, NoImage, <<IndexURL>>)
            ELSE IF p.desc = NoDescriptor
            THEN LoadEnds("FileNotFoundError", NoImage, <<IndexURL>>)
            ELSE IF openURL(s.manifestStatus) # "none"
            THEN LoadEnds(openURL(s.manifestStatus), NoImage, <<IndexURL, ManifestURL(p.desc)>>)
            ELSE IF parseManifest(s.schemaVersion) # "none"
            THEN LoadEnds(parseManifest(s.schemaVersion), NoImage,
                          <<IndexURL, ManifestURL(p.desc)>>)
            ELSE LoadEnds("none",
                          [manifest |-> p.desc.digest, schemaVersion |-> s.schemaVersion],
                          <<IndexURL, ManifestURL(p.desc)>>)

\* ImageFactory.__init__ and getImageStorage, lines 1594-1609, with
\* ImageFormat.setArchitecture, lines 558-559: the architecture of the
\* factory is set on the store before load() is called
getImageStorage(factoryArchitecture) == factoryArchitecture

InitLoad ==
    /\ served \in Served
    /\ \E a \in RequestedArchitectures : storeArchitecture = getImageStorage(a)
    /\ fetches = <<>>
    /\ loadResult = LoadPending

\* loader.load()
Load ==
    /\ loadResult = LoadPending
    /\ loadResult' = registryLoad(InstanceAttributes, storeArchitecture, served)
    /\ fetches' = loadResult'.fetched
    /\ UNCHANGED <<served, storeArchitecture>>
    /\ UNCHANGED notLoad

\* The registry's content changes and the image is loaded anew
NextLoad ==
    /\ loadResult # LoadPending
    /\ served' \in Served
    /\ fetches' = <<>>
    /\ loadResult' = LoadPending
    /\ UNCHANGED storeArchitecture
    /\ UNCHANGED notLoad

NextLoads == Load \/ NextLoad

\* --- claims about load

\* What the served index selects for the default architecture
Selected == pickManifestFromIndex(served.index, "amd64")
AllFetched == served.indexStatus = 200 /\ served.manifestStatus = 200

Configured == pickManifestFromIndex(served.index, storeArchitecture)

\* C30: when a load resolves an image index (index and manifest are served,
\* the manifest has schemaVersion 2), the manifest is selected for the
\* architecture configured on the ImageFormat instance, not for a fixed
\* architecture: the image returned is that of the descriptor the index
\* lists for the configured architecture.
C30_ConfiguredArchitectureSelected ==
    ( /\ loadResult # LoadPending
      /\ AllFetched /\ served.schemaVersion = 2
      /\ Configured.exc = "none" /\ Configured.desc # NoDescriptor )
        => /\ loadResult.exc = "none"
           /\ loadResult.image.manifest = Configured.desc.digest
           /\ fetches = <<IndexURL, ManifestURL(Configured.desc)>>

\* ------------------------------------------------------------------
\* ImageFormatOCIArchive: one handle, read mode and write mode
\* ------------------------------------------------------------------

\* File modes, as the sequences of their characters
FileModes == { <<"r">>, <<"r", "b">>, <<"w">>, <<"w", "b">>, <<"a">> }
MemberPaths == {"oci-layout", "index.json", "blobs/sha256/aa"}
HandleStates == {"False", "r", "w"}

\* 'w' in mode
HasW(mode) == \E i \in 1..Len(mode) : mode[i] = "w"

\* A plausible slip: only the write mode refuses the other kind of open
modeRefusedWritingOnly(w, mode) == w /\ ~HasW(mode)

\* ImageFormatOCIArchive.open, lines 1369-1371: the test that raises
modeRefused(w, mode) == (w /\ ~HasW(mode)) \/ (~w /\ HasW(mode))

\* ImageFormatOCIArchive.open, lines 1368-1381: ValueError for a mode of the
\* other kind; a TarMemberWriter in write mode; else the member is looked up
\* in self._th, which is False until load() (AttributeError) and raises
\* KeyError for a member the archive does not hold
archiveOpen(w, th, members, path, mode) ==
    IF modeRefused(w, mode) THEN "ValueError"
    ELSE IF w THEN "none"
    ELSE IF th = "False" THEN "AttributeError"
    ELSE IF \A i \in 1..Len(members) : members[i] # path THEN "KeyError"
    ELSE "none"

\* TarMemberWriter.__exit__, lines 1328-1345: the member is added to the tar
\* file when the body of the with statement raised nothing
memberWritten(members, path, bodyRaised) ==
    IF bodyRaised THEN members ELSE Append(members, path)

NoOpen == [mode |-> <<>>, path |-> "None", writing |-> FALSE, before |-> <<>>, exc |-> "pending"]
NoOperation == [op |-> "__init__", exc |-> "none"]

InitArchive ==
    /\ arWriting = FALSE
    /\ arHandle = "False"
    /\ arMembers \in { <<>>, <<"oci-layout">>, <<"oci-layout", "index.json">> }
    /\ arLast = NoOperation
    /\ arOpen = NoOpen

\* with self.open(path, mode) as f: ..., by a caller or by a method of the
\* handle; the body of the with statement may raise
ArchiveOpen ==
    \E path \in MemberPaths, mode \in FileModes, bodyRaised \in BOOLEAN :
        LET exc == archiveOpen(arWriting, arHandle, arMembers, path, mode)
        IN /\ (exc = "none" /\ arWriting) => Len(arMembers) < MaxMembers
           /\ arOpen' = [mode |-> mode, path |-> path, writing |-> arWriting,
                         before |-> arMembers,
                         exc |-> IF exc = "none" /\ bodyRaised THEN "body" ELSE exc]
           /\ arMembers' = IF exc = "none" /\ arWriting
                           THEN memberWritten(arMembers, path, bodyRaised)
                           ELSE arMembers
           /\ UNCHANGED <<arWriting, arHandle, arLast>>
           /\ UNCHANGED notArchive

\* ImageFormatOCIArchive.close, lines 1361-1363
ArchiveClose ==
    /\ arWriting' = FALSE
    /\ arHandle' = "False"
    /\ arLast' = [op |-> "close", exc |-> "none"]
    /\ UNCHANGED <<arMembers, arOpen>>
    /\ UNCHANGED notArchive

\* ImageFormatOCIArchive.savePreamble, lines 1411-1420: close(), the tar file
\* is opened for writing (which empties it, or raises OSError) and oci-layout
\* is written
ArchiveSavePreamble ==
    \E opened \in BOOLEAN :
        IF opened
        THEN /\ arWriting' = TRUE
             /\ arHandle' = "w"
             /\ arMembers' = memberWritten(<<>>, "oci-layout", FALSE)
             /\ arOpen' = [mode |-> <<"w">>, path |-> "oci-layout", writing |-> TRUE,
                           before |-> <<>>, exc |-> archiveOpen(TRUE, "w", <<>>, "oci-layout", <<"w">>)]
             /\ arLast' = [op |-> "savePreamble", exc |-> "none"]
             /\ UNCHANGED notArchive
        ELSE /\ arWriting' = FALSE
             /\ arHandle' = "False"
             /\ arLast' = [op |-> "savePreamble", exc |-> "OSError"]
             /\ UNCHANGED <<arMembers, arOpen>>
             /\ UNCHANGED notArchive

\* ImageFormatOCIArchive.load, lines 1383-1406: close(), the tar file is
\* opened for reading, oci-layout and index.json are opened; parseImageIndex
\* is called with arguments it does not take
archiveLoad(members) ==
    IF archiveOpen(FALSE, "r", members, "oci-layout", <<"r">>) # "none"
    THEN [path |-> "oci-layout", exc |-> archiveOpen(FALSE, "r", members, "oci-layout", <<"r">>)]
    ELSE IF archiveOpen(FALSE, "r", members, "index.json", <<"r">>) # "none"
    THEN [path |-> "index.json", exc |-> archiveOpen(FALSE, "r", members, "index.json", <<"r">>)]
    ELSE [path |-> "index.json", exc |-> "body"]

ArchiveLoad ==
    \E opened \in BOOLEAN :
        /\ arWriting' = FALSE
        /\ UNCHANGED arMembers
        /\ UNCHANGED notArchive
        /\ IF opened
           THEN /\ arHandle' = "r"
                /\ arOpen' = [mode |-> <<"r">>, path |-> archiveLoad(arMembers).path,
                              writing |-> FALSE, before |-> arMembers,
                              exc |-> archiveLoad(arMembers).exc]
                /\ arLast' = [op |-> "load",
                              exc |-> IF archiveLoad(arMembers).exc = "body" THEN "TypeError"
                                      ELSE archiveLoad(arMembers).exc]
           ELSE /\ arHandle' = "False"
                /\ arLast' = [op |-> "load", exc |-> "OSError"]
                /\ UNCHANGED arOpen

NextArchive == ArchiveOpen \/ ArchiveClose \/ ArchiveSavePreamble \/ ArchiveLoad

\* --- claims about the archive handle

\* C21: an OCI-archive handle is in exactly one of read mode and write mode
\* at any time: in write mode (after savePreamble) every open without 'w'
\* fails, in read mode (after load or close) every open with 'w' fails, and a
\* failed open adds no member to the archive.
C21_ExclusiveModes ==
    /\ arWriting <=> (arLast = [op |-> "savePreamble", exc |-> "none"])
    /\ arWriting <=> (arHandle = "w")
    /\ arOpen # NoOpen =>
          /\ (arOpen.writing /\ ~HasW(arOpen.mode)) => arOpen.exc = "ValueError"
          /\ (~arOpen.writing /\ HasW(arOpen.mode)) => arOpen.exc = "ValueError"
          /\ arOpen.exc # "none" => arMembers = arOpen.before

\* C21 witness: in write mode, after members were added, an open for
\* reading failed and added nothing
C21_Witness ==
    /\ arWriting
    /\ Len(arMembers) >= 2
    /\ arOpen.mode = <<"r", "b">>
    /\ arOpen.exc = "ValueError"
    /\ arOpen.before = arMembers

\* ------------------------------------------------------------------
\* ImageFormatDir: copying a blob by hard link or by read and write
\* ------------------------------------------------------------------

BlobContents == UNION { [1..n -> Chunks] : n \in 0..MaxBlobChunks }

\* The source: the bytes of the blob; whether loader.blobFilesystemPath(d)
\* names a file (ImageFormatDir) or is None (ImageFormat, lines 685-686);
\* the chunks src.read delivers before it raises (all of them: no failure)
CopySources ==
    { [content |-> c, hasPath |-> p, readable |-> n] :
          c \in BlobContents, p \in BOOLEAN, n \in 0..MaxBlobChunks }

\* A plausible slip: a failed os.link is reported as a link made
tryToHardlinkBlobReportsTrue(src, linkWorks) == src.hasPath

\* ImageFormatDir.tryToHardlinkBlob, lines 1271-1288: True when os.link
\* made the link; False without a source path and when os.link raised
tryToHardlinkBlob(src, linkWorks) == src.hasPath /\ linkWorks

\* ImageFormatDir.saveBlob, lines 1303-1311: the file is opened for writing
\* and the chunks are written as they are read; flush() ends the loop
saveBlob(src) ==
    IF src.readable < Len(src.content)
    THEN [exc |-> "OSError", file |-> SubSeq(src.content, 1, src.readable)]
    ELSE [exc |-> "none", file |-> src.content]

CopyEnds(exc, linked, copied) == [exc |-> exc, linked |-> linked, copied |-> copied]
CopyPending == CopyEnds("pending", FALSE, FALSE)

\* ImageFormat.copyBlob with ImageFormatDir as self, lines 694-708: the
\* file a hard link leaves is the source file itself, and there is a link
\* only when os.link made one; `linked` records the link, not the answer
\* of tryToHardlinkBlob
copyBlobToDir(dest, src, linkWorks) ==
    IF dest # NoFile
    THEN [file |-> dest, result |-> CopyEnds("NameError", FALSE, FALSE)]
    ELSE IF tryToHardlinkBlob(src, linkWorks)
    THEN [file |-> IF src.hasPath /\ linkWorks THEN src.content ELSE NoFile,
          result |-> CopyEnds("none", src.hasPath /\ linkWorks, FALSE)]
    ELSE [file |-> saveBlob(src).file, result |-> CopyEnds(saveBlob(src).exc, FALSE, TRUE)]

InitCopy ==
    /\ cpSource \in CopySources
    /\ cpDest \in {NoFile} \cup BlobContents
    /\ cpResult = CopyPending

\* self.copyBlob(img, d); os.link works or raises (another filesystem)
CopyBlobToDir ==
    /\ cpResult = CopyPending
    /\ \E linkWorks \in BOOLEAN :
          /\ cpDest' = copyBlobToDir(cpDest, cpSource, linkWorks).file
          /\ cpResult' = copyBlobToDir(cpDest, cpSource, linkWorks).result
    /\ UNCHANGED cpSource
    /\ UNCHANGED notCopy

NextCopy == CopyBlobToDir

\* --- claims about copying into a directory

\* C22: copying a blob into a directory transport leaves a destination blob
\* byte-identical to the source blob whether the hard link succeeds, fails,
\* or is not possible because the source loader exposes no filesystem path; a
\* failed hard link attempt falls back to copy-by-read/write and is never
\* reported as a completed copy.
C22_CopyIdentical ==
    cpResult # CopyPending =>
        /\ cpResult.exc = "none" => cpDest = cpSource.content
        /\ (cpResult.exc # "NameError" /\ ~cpResult.linked) => cpResult.copied
        /\ (cpResult.exc = "none" /\ ~cpResult.linked) =>
              cpResult.copied /\ cpSource.readable >= Len(cpSource.content)

\* C22 witness: the source had a path, os.link failed and the blob was
\* copied by read and write
C22_Witness ==
    /\ cpResult.exc = "none"
    /\ cpSource.hasPath
    /\ ~cpResult.linked
    /\ cpResult.copied
    /\ Len(cpSource.content) = 2
    /\ cpDest = cpSource.content

\* ------------------------------------------------------------------
\* OCIDescriptor: the methods that rewrite a descriptor
\* ------------------------------------------------------------------

\* OCIDescriptor.__init__, lines 228-233: the attributes of the JSON object
\* and the media type parsed from mediaType
DescriptorOf(mt, urls) ==
    [mediaType |-> mt, parsed |-> MediaTypeInit(mt), digest |-> "sha256:aa",
     size |-> 2, urls |-> urls]
OCIDescriptors == { DescriptorOf(mt, u) : mt \in MediaTypeStrings, u \in { <<>>, <<"url0">> } }
NoOCIDescriptor ==
    [mediaType |-> <<>>, parsed |-> NoMediaType, digest |-> "None", size |-> 0, urls |-> <<>>]

\* What a method ends with: the exception, the descriptor returned (None:
\* NoOCIDescriptor) and the descriptor it was called on as it is afterwards
MethodEnds(exc, ret, self) == [exc |-> exc, ret |-> ret, self |-> self]

\* copy.deepcopy(self)
deepcopy(d) == d

\* OCIDescriptor.addURL, lines 235-238
addURL(d, url) == [d EXCEPT !.urls = Append(d.urls, url)]

\* OCIDescriptor.makeExternalReference, lines 287-289: the parsed media type
\* is changed in place, then serialized into mediaType
descMakeExternalReference(d) ==
    LET made == makeExternalReference(d.parsed)
    IN IF made.exc # "none" THEN MethodEnds(made.exc, NoOCIDescriptor, d)
       ELSE IF mediaTypeRepr(made.mt).exc # "none"
       THEN MethodEnds(mediaTypeRepr(made.mt).exc, NoOCIDescriptor,
                       [d EXCEPT !.parsed = made.mt])
       ELSE MethodEnds("none", NoOCIDescriptor,
                       [d EXCEPT !.parsed = made.mt,
                                 !.mediaType = mediaTypeRepr(made.mt).value])

\* A plausible slip: the descriptor itself is made the external reference
descAsExternalReferenceInPlace(d, loader) ==
    LET made == descMakeExternalReference(d)
    IN IF made.exc # "none" THEN MethodEnds(made.exc, NoOCIDescriptor, made.self)
       ELSE IF blobURL(loader) # "none" THEN MethodEnds(blobURL(loader), NoOCIDescriptor, made.self)
       ELSE MethodEnds("none", addURL(made.self, "blob-url"), addURL(made.self, "blob-url"))

\* OCIDescriptor.asExternalReference, lines 278-285
descAsExternalReference(d, loader) ==
    LET made == descMakeExternalReference(deepcopy(d))
    IN IF made.exc # "none" THEN MethodEnds(made.exc, NoOCIDescriptor, d)
       ELSE IF blobURL(loader) # "none" THEN MethodEnds(blobURL(loader), NoOCIDescriptor, d)
       ELSE MethodEnds("none", addURL(made.self, "blob-url"), d)

\* OCIDescriptor.asVendor, lines 301-307
descAsVendor(d, vendor) ==
    LET changed == changeVendor(deepcopy(d).parsed, vendor)
    IN IF changed.exc # "none" THEN MethodEnds(changed.exc, NoOCIDescriptor, d)
       ELSE IF mediaTypeRepr(changed.mt).exc # "none"
       THEN MethodEnds(mediaTypeRepr(changed.mt).exc, NoOCIDescriptor, d)
       ELSE MethodEnds("none",
                       [d EXCEPT !.parsed = changed.mt,
                                 !.mediaType = mediaTypeRepr(changed.mt).value], d)

\* Image.openLayerBlob, lines 1577-1592: the manifest's layers are read (an
\* ImageManifestV2 has no such attribute); gzip is the one compression read
openLayerBlob(d, manifestClass) ==
    IF manifestClass = "ImageManifestV2" THEN "AttributeError"
    ELSE IF d.parsed.compression \notin {NoCompression, "gzip"} THEN "ValueError"
    ELSE "none"

\* OCIDescriptor.asUncompressed, lines 252-273: the blob is read and hashed,
\* and a deep copy is given the media type without compression, the size
\* and the digest of what was read
descAsUncompressed(d, manifestClass) ==
    IF openLayerBlob(d, manifestClass) # "none"
    THEN MethodEnds(openLayerBlob(d, manifestClass), NoOCIDescriptor, d)
    ELSE LET plain == [deepcopy(d).parsed EXCEPT !.compression = NoCompression]
         IN MethodEnds("none",
                       [d EXCEPT !.parsed = plain,
                                 !.mediaType = mediaTypeRepr(plain).value,
                                 !.size = IF d.parsed.compression = NoCompression
                                          THEN d.size ELSE d.size + 1,
                                 !.digest = IF d.parsed.compression = NoCompression
                                            THEN d.digest ELSE "sha256:bb"],
                       d)

NoCall == [op |-> "None", exc |-> "pending", ret |-> NoOCIDescriptor]
Called(op, r) == [op |-> op, exc |-> r.exc, ret |-> r.ret]

InitDescriptor ==
    /\ dSelf \in OCIDescriptors
    /\ dBefore = dSelf
    /\ dCall = NoCall

Rewrite(op, r) ==
    /\ dCall = NoCall
    /\ dCall' = Called(op, r)
    /\ dSelf' = r.self
    /\ UNCHANGED dBefore
    /\ UNCHANGED notDescriptor

\* d.makeExternalReference()
MakeExternalReference == Rewrite("makeExternalReference", descMakeExternalReference(dSelf))

\* d.asExternalReference(img)
AsExternalReference ==
    \E loader \in Loaders : Rewrite("asExternalReference", descAsExternalReference(dSelf, loader))

\* d.asVendor(vendor)
AsVendor ==
    \E v \in Vendors : Rewrite("asVendor", descAsVendor(dSelf, v))

\* d.asUncompressed(img)
AsUncompressed ==
    \E c \in ManifestClasses : Rewrite("asUncompressed", descAsUncompressed(dSelf, c))

NextDescriptor == MakeExternalReference \/ AsExternalReference \/ AsVendor \/ AsUncompressed

\* --- claims about descriptors

\* C24: makeExternalReference succeeds only on a non-external layer type,
\* turning it into the same vendor's external-layer type with the compression
\* kept; on any other kind (index, manifest, config, already external, vendor
\* none) it fails and leaves the media type unchanged.
C24_ExternalOnlyFromLayer ==
    dCall.op = "makeExternalReference" =>
        IF isImageLayer(dBefore.parsed)
        THEN /\ dCall.exc = "none"
             /\ dSelf.parsed.vendor = dBefore.parsed.vendor
             /\ dSelf.parsed.baseMIMEType =
                    VendorTable(dBefore.parsed.vendor).mimeTypeLayerExternal
             /\ dSelf.parsed.compression = dBefore.parsed.compression
             /\ MediaTypeInit(dSelf.mediaType) = dSelf.parsed
        ELSE /\ dCall.exc # "none"
             /\ dSelf = dBefore

\* C25: rewriting a descriptor never mutates it in place: asVendor,
\* asExternalReference and asUncompressed each return a new descriptor and
\* leave the descriptor they are called on (mediaType, digest, size, urls)
\* unchanged, whether they return or raise.
C25_RewritesCopy ==
    dCall.op \in {"asVendor", "asExternalReference", "asUncompressed"} =>
        /\ dSelf = dBefore
        /\ dCall.exc = "none" =>
              /\ dCall.ret # NoOCIDescriptor
              /\ dCall.ret.parsed = MediaTypeInit(dCall.ret.mediaType)
              /\ dCall.op = "asExternalReference" =>
                    /\ dCall.ret.urls = Append(dBefore.urls, "blob-url")
                    /\ dCall.ret # dBefore
              /\ dCall.op = "asVendor" => dCall.ret.urls = dBefore.urls

\* C25 witness: asExternalReference of a layer descriptor that has a URL
\* returned a descriptor with one more URL, the descriptor keeping its own
C25_Witness ==
    /\ dCall.op = "asExternalReference"
    /\ dCall.exc = "none"
    /\ dSelf.urls = <<"url0">>
    /\ dCall.ret.urls = <<"url0", "blob-url">>
    /\ dSelf.parsed.baseMIMEType = VendorOCI.mimeTypeLayer
    /\ dCall.ret.parsed.baseMIMEType = VendorOCI.mimeTypeLayerExternal

\* ------------------------------------------------------------------
\* Specifications
\* ------------------------------------------------------------------

\* No index is being looked at
InitIndexIdle ==
    /\ manifests = <<>>
    /\ architecture = "amd64"
    /\ picked = NotPicked

\* No registry instance is at work
InitRegistryIdle ==
    /\ keystore = NoKeystore
    /\ creds = NoCreds
    /\ call = "none"
    /\ digest = "sha256:aa"
    /\ pc = "idle"
    /\ authReq = NoChallenge
    /\ loginCreds = NoCreds
    /\ logins = 0
    /\ wire = <<>>
    /\ seen = <<>>
    /\ calls = <<>>
    /\ raw = "pending"
    /\ result = Pending

\* No blob is being opened
InitCacheIdle ==
    /\ cacheOn = FALSE
    /\ cacheFiles = [d \in Digests |-> NoFile]
    /\ opens = <<>>

\* No save is under way
InitSaveIdle ==
    /\ transport = "dir"
    /\ image = [config |-> ConfigDescriptor, layers |-> <<>>, manifestClass |-> "caller-built"]
    /\ srcPath = FALSE
    /\ stored = {}
    /\ lastBlobSaved = NoDigest
    /\ writing = FALSE
    /\ step = 1
    /\ layer = 1
    /\ events = <<>>
    /\ manifestWritten = FALSE
    /\ saveExc = "none"
    /\ saves = 0
    /\ manifestFile = NoManifest
    /\ handles = 0
    /\ loaded = NotLoaded

\* No media type is looked at
InitMediaIdle ==
    /\ mtString = <<>>
    /\ mediaType = NoMediaType
    /\ mtHistory = <<>>
    /\ mtExc = "none"
    /\ mtRepr = NoRepr

\* No reference string is parsed
InitReferenceIdle ==
    /\ refInput = [host |-> NoHost, segs |-> <<"app">>, tag |-> NoTag]
    /\ dns = {}
    /\ parsedRef = NoReference

\* No image is added to a LayerMap
InitLayerMapIdle ==
    /\ mapImages = [n \in ImageNames |->
                        [generation |-> 1, manifestClass |-> "caller-built",
                         loader |-> "docker", mediaType |-> VendorOCI.mimeTypeLayer]]
    /\ layerMap = NoLayerInfo
    /\ mapped = <<>>
    /\ reference = NoLookup

\* No image is loaded from a registry
InitLoadIdle ==
    /\ served = [index |-> <<>>, schemaVersion |-> 2, indexStatus |-> 200, manifestStatus |-> 200]
    /\ fetches = <<>>
    /\ loadResult = LoadPending
    /\ storeArchitecture = "amd64"

\* No archive handle is in use
InitArchiveIdle ==
    /\ arWriting = FALSE
    /\ arHandle = "False"
    /\ arMembers = <<>>
    /\ arLast = NoOperation
    /\ arOpen = NoOpen

\* No blob is copied into a directory
InitCopyIdle ==
    /\ cpSource = [content |-> <<>>, hasPath |-> FALSE, readable |-> 0]
    /\ cpDest = NoFile
    /\ cpResult = CopyPending

\* No descriptor is rewritten
InitDescriptorIdle ==
    /\ dSelf = NoOCIDescriptor
    /\ dBefore = NoOCIDescriptor
    /\ dCall = NoCall

\* The registry transport of one ImageFormatDockerRegistry instance
Init == InitRegistry /\ InitIndexIdle /\ InitCacheIdle /\ InitSaveIdle /\ InitMediaIdle /\ InitReferenceIdle /\ InitLayerMapIdle /\ InitLoadIdle /\ InitArchiveIdle /\ InitCopyIdle /\ InitDescriptorIdle
Spec == Init /\ [][NextRegistry]_vars

\* Calls of pickManifestFromIndex on the indexes a store can hold
InitIndexes == InitIndex /\ InitRegistryIdle /\ InitCacheIdle /\ InitSaveIdle /\ InitMediaIdle /\ InitReferenceIdle /\ InitLayerMapIdle /\ InitLoadIdle /\ InitArchiveIdle /\ InitCopyIdle /\ InitDescriptorIdle
SpecIndex == InitIndexes /\ [][NextIndexes]_vars

\* Blobs opened through the registry transport, with and without a cache
InitCaches == InitCache /\ InitRegistryIdle /\ InitIndexIdle /\ InitSaveIdle /\ InitMediaIdle /\ InitReferenceIdle /\ InitLayerMapIdle /\ InitLoadIdle /\ InitArchiveIdle /\ InitCopyIdle /\ InitDescriptorIdle
SpecCache == InitCaches /\ [][NextCache]_vars

\* save(img) on each of the three transports
InitSaves == InitSave /\ InitRegistryIdle /\ InitIndexIdle /\ InitCacheIdle /\ InitMediaIdle /\ InitReferenceIdle /\ InitLayerMapIdle /\ InitLoadIdle /\ InitArchiveIdle /\ InitCopyIdle /\ InitDescriptorIdle
SpecSave == InitSaves /\ [][NextSave]_vars

\* One media type string, parsed, serialized and changed between vendors
InitMedias == InitMedia /\ InitRegistryIdle /\ InitIndexIdle /\ InitCacheIdle /\ InitSaveIdle /\ InitReferenceIdle /\ InitLayerMapIdle /\ InitLoadIdle /\ InitArchiveIdle /\ InitCopyIdle /\ InitDescriptorIdle
SpecMedia == InitMedias /\ [][NextMedia]_vars

\* Reference strings parsed under every answer of the resolver
InitReferences == InitReference /\ InitRegistryIdle /\ InitIndexIdle /\ InitCacheIdle /\ InitSaveIdle /\ InitMediaIdle /\ InitLayerMapIdle /\ InitLoadIdle /\ InitArchiveIdle /\ InitCopyIdle /\ InitDescriptorIdle
SpecReference == InitReferences /\ [][NextReferences]_vars

\* Two images carrying one layer are added to a LayerMap in either order
InitLayerMaps == InitLayerMap /\ InitRegistryIdle /\ InitIndexIdle /\ InitCacheIdle /\ InitSaveIdle /\ InitMediaIdle /\ InitReferenceIdle /\ InitLoadIdle /\ InitArchiveIdle /\ InitCopyIdle /\ InitDescriptorIdle
SpecLayerMap == InitLayerMaps /\ [][NextLayerMap]_vars

\* One image loaded from registries of every content
InitLoads == InitLoad /\ InitRegistryIdle /\ InitIndexIdle /\ InitCacheIdle /\ InitSaveIdle /\ InitMediaIdle /\ InitReferenceIdle /\ InitLayerMapIdle /\ InitArchiveIdle /\ InitCopyIdle /\ InitDescriptorIdle
SpecLoad == InitLoads /\ [][NextLoads]_vars

\* One archive handle used for saving, loading and opening members
InitArchives == InitArchive /\ InitIndexIdle /\ InitRegistryIdle /\ InitCacheIdle /\ InitSaveIdle /\ InitMediaIdle /\ InitReferenceIdle /\ InitLayerMapIdle /\ InitLoadIdle /\ InitCopyIdle /\ InitDescriptorIdle
SpecArchive == InitArchives /\ [][NextArchive]_vars

\* One blob copied into a directory from sources of every kind
InitCopys == InitCopy /\ InitIndexIdle /\ InitRegistryIdle /\ InitCacheIdle /\ InitSaveIdle /\ InitMediaIdle /\ InitReferenceIdle /\ InitLayerMapIdle /\ InitLoadIdle /\ InitArchiveIdle /\ InitDescriptorIdle
SpecCopy == InitCopys /\ [][NextCopy]_vars

\* One descriptor of every media type and one call of a rewriting method
InitDescriptors == InitDescriptor /\ InitIndexIdle /\ InitRegistryIdle /\ InitCacheIdle /\ InitSaveIdle /\ InitMediaIdle /\ InitReferenceIdle /\ InitLayerMapIdle /\ InitLoadIdle /\ InitArchiveIdle /\ InitCopyIdle
SpecDescriptor == InitDescriptors /\ [][NextDescriptor]_vars

====
